---------------------------- MODULE Spec2Model ----------------------------
(***************************************************************************)
(* A model of the bronze / silver / gold e-commerce pipeline and of its    *)
(* data-quality validator.                                                 *)
(*                                                                         *)
(* Conventions                                                             *)
(*  - money is kept in whole cents, percentages in whole percent, a        *)
(*    timestamp is a clock tick and a date a day number;                   *)
(*  - a nullable column holds Null (<<>>) or Some(v) (<<v>>), with Spark's *)
(*    null propagation written out in the helpers below;                   *)
(*  - identifiers such as CUST-0000001 are fixed-width, so their string    *)
(*    order is the order of their numbers: ids are the numbers;            *)
(*  - a table is the set of its rows.  Descriptive columns that every      *)
(*    operation here copies unchanged (names, phone, city, sku, brand ...) *)
(*    are left out of the rows.                                            *)
(***************************************************************************)
EXTENDS Integers, Sequences, FiniteSets, TLC

VARIABLES
    now,        \* the clock: current_timestamp() of the next query
    bronze,     \* bronze[t]: rows of the Bronze store of table t
    silver,     \* silver[t]: rows of the Silver store of table t
    gold,       \* gold[g]: the Gold store of table g: whether it was written,
                \* its rows, the arguments of the call that wrote it
    goldPrev,   \* goldPrev[g]: what gold[g] held before its last overwrite
    factRun,    \* how the last build_fact_sales call ended
    factFrame,  \* the fact_sales frame that call built before its final select
    silverIn,   \* silverIn[t]: the Bronze rows the last Silver run of t read
    self_df,    \* DataQualityValidator.df: its columns and its rows
    results,    \* DataQualityValidator.results
    returned,   \* the last check call: its method, arguments and return value
    jobLog,     \* the last Glue job run: layer, tables, tables written, outcome
    aggRun,     \* how the last call of an aggregate builder ended
    product_metrics,  \* build_product_performance: product_metrics, unranked
    product_ranks,    \* the same frame with revenue_rank_in_category added
    paths,      \* the local runners' data directory: the paths that exist
    invocation, \* the last local runner invocation: its command line, the
                \* calls main makes, the position in them, how it ended
    steps       \* the layer functions that invocation has called so far

aggVars == <<aggRun, product_metrics, product_ranks>>

localVars == <<paths, invocation, steps>>

vars == <<now, bronze, silver, silverIn, gold, goldPrev, factRun, factFrame, self_df,
          results, returned, jobLog, aggVars, localVars>>

-----------------------------------------------------------------------------
(* Bounds of the model *)

NumIds == 2          \* natural keys range over 1..NumIds
MaxRows == 2         \* rows of a Bronze table drawn as input
MaxIngest == 3       \* ingestion timestamps of the drawn Bronze rows
MaxClock == 4        \* the clock stops advancing here

Ids == 1..NumIds
Tables == {"customers", "products", "orders", "order_items"}

-----------------------------------------------------------------------------
(* Nullable values and Spark's null-propagating expressions *)

Null == <<>>
Some(v) == <<v>>
IsNull(x) == x = Null
Val(x) == x[1]

Abs(i) == IF i < 0 THEN -i ELSE i

\* a + b, a - b, a * b on nullable integers
NAdd(a, b) == IF IsNull(a) \/ IsNull(b) THEN Null ELSE Some(Val(a) + Val(b))
NSub(a, b) == IF IsNull(a) \/ IsNull(b) THEN Null ELSE Some(Val(a) - Val(b))
NMul(a, b) == IF IsNull(a) \/ IsNull(b) THEN Null ELSE Some(Val(a) * Val(b))

\* round-half-up of n / d for d > 0 (F.round rounds half away from zero)
RoundDiv(n, d) ==
    IF n >= 0 THEN (2 * n + d) \div (2 * d) ELSE -((2 * (-n) + d) \div (2 * d))

\* a tolerance that takes a difference of exactly one cent as well
WithinCentInclusive(a, b) ==
    IF IsNull(a) \/ IsNull(b) THEN Null ELSE Some(Abs(Val(a) - Val(b)) <= 1)

\* F.abs(a - b) < 0.01 on amounts in cents: null when either side is null
WithinCent(a, b) ==
    IF IsNull(a) \/ IsNull(b) THEN Null ELSE Some(Abs(Val(a) - Val(b)) < 1)

-----------------------------------------------------------------------------
(* The calendar: a date is its number of days since 1 January EpochYear *)

EpochYear == 2020

IsLeap(y) == (y % 4 = 0 /\ y % 100 # 0) \/ y % 400 = 0
DaysInYear(y) == IF IsLeap(y) THEN 366 ELSE 365
DaysInMonth(y, m) ==
    IF m = 2 THEN (IF IsLeap(y) THEN 29 ELSE 28)
    ELSE IF m \in {4, 6, 9, 11} THEN 30 ELSE 31

RECURSIVE DaysBeforeYear(_)
DaysBeforeYear(y) ==
    IF y <= EpochYear THEN 0 ELSE DaysBeforeYear(y - 1) + DaysInYear(y - 1)

RECURSIVE DaysBeforeMonth(_, _)
DaysBeforeMonth(y, m) ==
    IF m <= 1 THEN 0 ELSE DaysBeforeMonth(y, m - 1) + DaysInMonth(y, m - 1)

\* datetime(y, m, d) as a day number
DayNumber(y, m, d) == DaysBeforeYear(y) + DaysBeforeMonth(y, m) + (d - 1)

RECURSIVE YearOfDay(_, _)
YearOfDay(n, y) == IF n < DaysInYear(y) THEN y ELSE YearOfDay(n - DaysInYear(y), y + 1)

RECURSIVE MonthOfDay(_, _, _)
MonthOfDay(n, y, m) ==
    IF n < DaysInMonth(y, m) THEN m ELSE MonthOfDay(n - DaysInMonth(y, m), y, m + 1)

\* F.year, F.month, F.dayofmonth of a date on or after the epoch
CivilOf(n) ==
    LET y == YearOfDay(n, EpochYear)
        inYear == n - DaysBeforeYear(y)
        m == MonthOfDay(inYear, y, 1)
    IN  [year |-> y, month |-> m, day |-> inYear - DaysBeforeMonth(y, m) + 1]

\* year * 10000 + month * 100 + day
create_date_key(n) ==
    LET civil == CivilOf(n)
    IN  civil.year * 10000 + civil.month * 100 + civil.day

\* the day of clock tick 0: 28 February 2024, so that the clock of the
\* model runs over 29 February and 1 March 2024
FirstDay == DayNumber(2024, 2, 28)

-----------------------------------------------------------------------------
(* Bronze lineage columns *)

TicksPerDay == 2

\* current_date() at clock tick ts; tick 0 falls on FirstDay
DateOf(ts) == FirstDay + ts \div TicksPerDay

SourcePath(t) == "raw/" \o t \o "/"

add_bronze_metadata(df, source_path, ts) ==
    { r @@ [_ingested_at |-> ts, _source_file |-> source_path,
            _ingestion_date |-> DateOf(ts)] : r \in df }

-----------------------------------------------------------------------------
(* Raw input rows.  A raw numeric field is the value its text casts to,    *)
(* Null when the text does not parse (a failed cast yields null).          *)

\* sample e-mail texts with what lower(trim(.)), the domain regexp_extract
\* and the format rlike give on them
EmailText == {"JOHN.DOE@EXAMPLE.COM", "not-an-email"}
LowerTrim(e) == IF e = "JOHN.DOE@EXAMPLE.COM" THEN "john.doe@example.com" ELSE e
EmailDomainOf(e) == IF e = "john.doe@example.com" THEN "example.com" ELSE ""
MatchesEmailFormat(e) == e = "john.doe@example.com"

RawEmails == {Some(e) : e \in EmailText} \cup {Null}

RawCustomers == [customer_id : Ids, email : RawEmails]

ProductSamples ==
    { [price |-> Some(59999), cost |-> Some(35000)],
      [price |-> Some(0),     cost |-> Some(100)],
      [price |-> Some(1000),  cost |-> Some(1500)],
      [price |-> Some(-500),  cost |-> Some(100)],
      [price |-> Null,        cost |-> Some(100)] }

RawProduct(id, p) == [product_id |-> id, price |-> p.price, cost |-> p.cost]

\* order amounts: consistent (conftest ORD-002), inconsistent, total missing
OrderAmountSamples ==
    { [subtotal |-> Some(12999), tax_amount |-> Some(2470),
       shipping_amount |-> Some(599), discount_amount |-> Some(1000),
       total_amount |-> Some(15068)],
      [subtotal |-> Some(12999), tax_amount |-> Some(2470),
       shipping_amount |-> Some(599), discount_amount |-> Some(1000),
       total_amount |-> Some(15000)],
      [subtotal |-> Some(12999), tax_amount |-> Some(2470),
       shipping_amount |-> Some(599), discount_amount |-> Some(1000),
       total_amount |-> Null] }

RawOrder(id, cust, day, a) ==
    [order_id |-> id, customer_id |-> cust, order_date |-> day,
     subtotal |-> a.subtotal, tax_amount |-> a.tax_amount,
     shipping_amount |-> a.shipping_amount,
     discount_amount |-> a.discount_amount, total_amount |-> a.total_amount]

\* order lines: consistent (conftest ITEM-001), inconsistent, total missing
ItemSamples ==
    { [quantity |-> Some(1), unit_price |-> Some(59999),
       discount_percent |-> Some(0), line_total |-> Some(59999)],
      [quantity |-> Some(2), unit_price |-> Some(1000),
       discount_percent |-> Some(10), line_total |-> Some(1700)],
      [quantity |-> Some(1), unit_price |-> Some(59999),
       discount_percent |-> Some(0), line_total |-> Null] }

RawItem(id, ord, prod, i) ==
    [order_item_id |-> id, order_id |-> ord, product_id |-> prod,
     quantity |-> i.quantity, unit_price |-> i.unit_price,
     discount_percent |-> i.discount_percent, line_total |-> i.line_total]

KeyOf(t) ==
    CASE t = "customers" -> "customer_id"
      [] t = "products" -> "product_id"
      [] t = "orders" -> "order_id"
      [] t = "order_items" -> "order_item_id"

-----------------------------------------------------------------------------
(* Silver: deduplication *)

KeysIn(df, key) == { r[key] : r \in df }

\* the rows of key k that an ascending sort on _ingested_at puts first
Earliest(df, key, k) ==
    { r \in df : r[key] = k /\
        \A s \in df : s[key] = k => r._ingested_at <= s._ingested_at }

\* the rows that may get row_number() = 1 in
\* Window.partitionBy(key).orderBy(_ingested_at desc): the sort has no other
\* column, so among rows that tie on _ingested_at any one may come first
RowNumberOne(df, key, k) ==
    { r \in df : r[key] = k /\
        \A s \in df : s[key] = k => s._ingested_at <= r._ingested_at }

\* every result filter(_row_num == 1) can give: one row per key
Deduplicate(df, key) ==
    LET keys == KeysIn(df, key)
        picks == { f \in [keys -> df] :
                     \A k \in keys : f[k] \in RowNumberOne(df, key, k) }
    IN  { { f[k] : k \in keys } : f \in picks }

-----------------------------------------------------------------------------
(* Silver: the four transformers.  Each gives the set of tables the        *)
(* transformer can return for the Bronze rows df when run at time ts.      *)

CustomerColumns(r) ==
    LET email == IF IsNull(r.email) THEN Null ELSE Some(LowerTrim(Val(r.email)))
    IN  [customer_id |-> r.customer_id,
         email |-> email,
         email_domain |->
             IF IsNull(email) THEN Null ELSE Some(EmailDomainOf(Val(email))),
         is_valid_email |->
             IF IsNull(email) THEN Null ELSE Some(MatchesEmailFormat(Val(email))),
         _source_file |-> r._source_file,
         _ingested_at |-> r._ingested_at]

transform_customers(df, ts) ==
    { { r @@ [_processed_at |-> ts] : r \in d } :
        d \in Deduplicate({ CustomerColumns(r) : r \in df }, "customer_id") }

\* the margin without the guard on the price: Spark gives null for a
\* division by zero
MarginPercentUnguarded(price, cost) ==
    IF IsNull(price) \/ IsNull(cost) \/ Val(price) = 0 THEN Null
    ELSE IF Val(price) > 0
         THEN Some(RoundDiv((Val(price) - Val(cost)) * 10000, Val(price)))
         ELSE Some(RoundDiv((Val(cost) - Val(price)) * 10000, -Val(price)))

\* margin_percent in hundredths of a percent
MarginPercent(price, cost) ==
    IF ~IsNull(price) /\ Val(price) > 0
    THEN IF IsNull(cost) THEN Null
         ELSE Some(RoundDiv((Val(price) - Val(cost)) * 10000, Val(price)))
    ELSE Some(0)

ProductColumns(r) ==
    [product_id |-> r.product_id,
     price |-> r.price,
     cost |-> r.cost,
     margin_percent |-> MarginPercent(r.price, r.cost),
     _source_file |-> r._source_file,
     _ingested_at |-> r._ingested_at]

transform_products(df, ts) ==
    { { r @@ [_processed_at |-> ts] : r \in d } :
        d \in Deduplicate({ ProductColumns(r) : r \in df }, "product_id") }

CalculatedTotal(r) ==
    NSub(NAdd(NAdd(r.subtotal, r.tax_amount), r.shipping_amount),
         r.discount_amount)

OrderColumns(r) ==
    [order_id |-> r.order_id,
     customer_id |-> r.customer_id,
     order_date |-> r.order_date,
     subtotal |-> r.subtotal,
     tax_amount |-> r.tax_amount,
     shipping_amount |-> r.shipping_amount,
     discount_amount |-> r.discount_amount,
     total_amount |-> r.total_amount,
     calculated_total |-> CalculatedTotal(r),
     is_total_valid |-> WithinCent(r.total_amount, CalculatedTotal(r)),
     _source_file |-> r._source_file,
     _ingested_at |-> r._ingested_at]

\* the same transformer with a filter on its flag, which the code does not have
transform_orders_filtering(df, ts) ==
    { { r @@ [_processed_at |-> ts] : r \in d } :
        d \in Deduplicate({ OrderColumns(r) : r \in
                              { x \in df : OrderColumns(x).is_total_valid = Some(TRUE) } },
                          "order_id") }

transform_orders(df, ts) ==
    { { r @@ [_processed_at |-> ts] : r \in d } :
        d \in Deduplicate({ OrderColumns(r) : r \in df }, "order_id") }

GrossAmount(r) == NMul(r.quantity, r.unit_price)

\* the discount cut down to whole cents instead of rounded
LineDiscountTruncated(r) ==
    LET g == NMul(r.quantity, r.unit_price)
    IN  IF IsNull(g) \/ IsNull(r.discount_percent) THEN Null
        ELSE Some((Val(g) * Val(r.discount_percent)) \div 100)

LineDiscountAmount(r) ==
    LET g == GrossAmount(r)
    IN  IF IsNull(g) \/ IsNull(r.discount_percent) THEN Null
        ELSE Some(RoundDiv(Val(g) * Val(r.discount_percent), 100))

CalculatedLineTotal(r) == NSub(GrossAmount(r), LineDiscountAmount(r))

ItemColumns(r) ==
    [order_item_id |-> r.order_item_id,
     order_id |-> r.order_id,
     product_id |-> r.product_id,
     quantity |-> r.quantity,
     unit_price |-> r.unit_price,
     gross_amount |-> GrossAmount(r),
     discount_percent |-> r.discount_percent,
     discount_amount |-> LineDiscountAmount(r),
     line_total |-> r.line_total,
     calculated_line_total |-> CalculatedLineTotal(r),
     is_line_total_valid |-> WithinCent(r.line_total, CalculatedLineTotal(r)),
     _source_file |-> r._source_file,
     _ingested_at |-> r._ingested_at]

transform_order_items(df, ts) ==
    { { r @@ [_processed_at |-> ts] : r \in d } :
        d \in Deduplicate({ ItemColumns(r) : r \in df }, "order_item_id") }

\* TRANSFORMATIONS.get(table_name) applied to df
Transformed(t, df, ts) ==
    CASE t = "customers" -> transform_customers(df, ts)
      [] t = "products" -> transform_products(df, ts)
      [] t = "orders" -> transform_orders(df, ts)
      [] t = "order_items" -> transform_order_items(df, ts)

-----------------------------------------------------------------------------
(* The stores and their initial values *)

GoldTables ==
    {"dim_customer", "dim_product", "dim_date", "fact_sales",
     "agg_daily_sales", "agg_product_performance"}

NoTable == [written |-> FALSE, rows |-> {}, args |-> <<>>]
NoFrame == [columns |-> <<>>, rows |-> {}]
NoJob == [layer |-> "none", tables |-> <<>>, written |-> {}, outcome |-> "none"]
NoCall == [method |-> "none", args |-> <<>>, value |-> <<>>, raised |-> "none"]
NoAggregate == [builder |-> "none", outcome |-> "none"]

\* the non-empty sets of at most n elements of D
BoundedSubsets(D, n) == { { f[i] : i \in 1..n } : f \in [1..n -> D] }

\* the Bronze rows an ingestion of table t at time ts can write
BronzeRowsOf(t, ts) ==
    add_bronze_metadata(
        CASE t = "customers" -> RawCustomers
          [] t = "products" -> { RawProduct(id, p) : id \in Ids, p \in ProductSamples }
          [] t = "orders" -> { RawOrder(id, 1, 0, a) : id \in Ids, a \in OrderAmountSamples }
          [] t = "order_items" -> { RawItem(id, 1, 1, i) : id \in Ids, i \in ItemSamples },
        SourcePath(t), ts)

\* no local runner has been started and its data directory is empty
NoInvocation ==
    [runner |-> "none", argv |-> <<>>, calls |-> <<>>, pc |-> 1,
     outcome |-> "none", count |-> 0]

RunnerIdle ==
    /\ paths = {}
    /\ invocation = NoInvocation
    /\ steps = <<>>

GoldInit ==
    /\ gold = [g \in GoldTables |-> NoTable]
    /\ goldPrev = [g \in GoldTables |-> NoTable]
    /\ factRun = "none"
    /\ factFrame = {}
    /\ aggRun = NoAggregate
    /\ product_metrics = {}
    /\ product_ranks = {}

-----------------------------------------------------------------------------
(* Silver job: process_table, on a Bronze store that holds one table       *)
(* ingested in at most MaxIngest batches.                                  *)

InitSilver ==
    /\ now = MaxIngest
    /\ \E t \in Tables :
         \E S \in BoundedSubsets(UNION { BronzeRowsOf(t, ts) : ts \in 1..MaxIngest },
                                 MaxRows) :
            bronze = [u \in Tables |-> IF u = t THEN S ELSE {}]
    /\ silver = [t \in Tables |-> {}]
    /\ silverIn = [t \in Tables |-> {}]
    /\ GoldInit
    /\ self_df = NoFrame
    /\ results = <<>>
    /\ returned = NoCall
    /\ jobLog = NoJob
    /\ RunnerIdle

\* spark.read.parquet(source_path): the whole table, or one
\* _ingestion_date partition when processing_date is given
ReadBronze(t, processing_date) ==
    IF IsNull(processing_date) THEN bronze[t]
    ELSE { r \in bronze[t] : r._ingestion_date = Val(processing_date) }

\* process_table: a missing path raises and an empty read returns, both
\* before the write; otherwise the Silver table is overwritten
process_table(t, processing_date) ==
    LET df == ReadBronze(t, processing_date)
    IN  /\ df # {}
        /\ \E out \in Transformed(t, df, now) :
              silver' = [silver EXCEPT ![t] = out]
        /\ silverIn' = [silverIn EXCEPT ![t] = df]
        /\ UNCHANGED <<localVars, aggVars, returned, now, bronze, gold, goldPrev, factRun, factFrame, self_df, results, jobLog>>

Tick ==
    /\ now < MaxClock
    /\ now' = now + 1
    /\ UNCHANGED <<localVars, aggVars, returned, bronze, silver, silverIn, gold, goldPrev, factRun, factFrame, self_df, results, jobLog>>

NextSilver ==
    \/ \E t \in Tables :
         \E pd \in {Null} \cup { Some(d) : d \in DateOf(0)..DateOf(MaxIngest) } :
            process_table(t, pd)
    \/ Tick

SpecSilver == InitSilver /\ [][NextSilver]_vars

-----------------------------------------------------------------------------
(* The amount checks of transform_orders and transform_order_items, on one *)
(* Bronze row whose amounts range over small values (SpecAmounts)          *)

MaxQuantity == 2     \* quantities range over 1..MaxQuantity
MaxCents == 10       \* unit prices range over 0..MaxCents cents

\* discount percentages: the multiples of 5 from 0 to 100
DiscountPercents == { 5 * k : k \in 0..20 }

\* Python's round(n / d, 2) on an amount of n / d cents, n >= 0: the nearest
\* cent; at an exact half the binary double of the product lies just below
\* or just above it, so either neighbour can come out
PythonRound(n, d) ==
    IF (2 * n) % (2 * d) = d THEN { n \div d, n \div d + 1 }
    ELSE { RoundDiv(n, d) }

\* the line totals the data generator can store for an order line
GeneratedLineTotals(quantity, unit_price, discount_percent) ==
    PythonRound(quantity * unit_price * (100 - discount_percent), 100)

AmountItems ==
    { [quantity |-> Some(q), unit_price |-> Some(u),
       discount_percent |-> Some(d), line_total |-> lt] :
        q \in 1..MaxQuantity, u \in 0..MaxCents, d \in DiscountPercents,
        lt \in {Null} \cup { Some(v) : v \in 0..(MaxQuantity * MaxCents) } }
    \cup ItemSamples
    \cup { [quantity |-> Null, unit_price |-> Some(MaxCents),
            discount_percent |-> Some(0), line_total |-> Some(MaxCents)],
           [quantity |-> Some(1), unit_price |-> Some(MaxCents),
            discount_percent |-> Null, line_total |-> Some(MaxCents)] }

SmallAmounts == { Some(v) : v \in 0..2 }

AmountOrders ==
    { [subtotal |-> s, tax_amount |-> t, shipping_amount |-> h,
       discount_amount |-> d, total_amount |-> total] :
        s \in SmallAmounts, t \in SmallAmounts, h \in SmallAmounts,
        d \in SmallAmounts \cup {Null},
        total \in {Null} \cup { Some(v) : v \in 0..6 } }
    \cup OrderAmountSamples
    \cup { [a EXCEPT !.total_amount = Some(Val(@) + 1)] :
             a \in { x \in OrderAmountSamples : x.total_amount = Some(15068) } }

InitAmounts ==
    /\ now = MaxIngest
    /\ \E input \in { <<"order_items", {RawItem(1, 1, 1, i)}>> : i \in AmountItems }
                    \cup { <<"orders", {RawOrder(1, 1, 0, a)}>> : a \in AmountOrders } :
         bronze = [t \in Tables |->
                     IF t = input[1]
                     THEN add_bronze_metadata(input[2], SourcePath(t), 1) ELSE {}]
    /\ silver = [t \in Tables |-> {}]
    /\ silverIn = [t \in Tables |-> {}]
    /\ GoldInit
    /\ self_df = NoFrame
    /\ results = <<>>
    /\ returned = NoCall
    /\ jobLog = NoJob
    /\ RunnerIdle

NextAmounts ==
    \E t \in {"orders", "order_items"} : process_table(t, Null)

SpecAmounts == InitAmounts /\ [][NextAmounts]_vars

-----------------------------------------------------------------------------
(* Gold: surrogate keys *)

\* every numbering row_number() over Window.orderBy(natural_key) can give:
\* the rows numbered 1..N along the sort, rows that tie in any order
RowNumbered(df, key_column, natural_key) ==
    LET n == Cardinality(df)
        orders == { f \in [df -> 1..n] :
                      /\ \A r, s \in df : r # s => f[r] # f[s]
                      /\ \A r, s \in df : r[natural_key] < s[natural_key] => f[r] < f[s] }
    IN  { { r @@ (key_column :> f[r]) : r \in df } : f \in orders }

\* a numbering that starts at 0, as monotonically_increasing_id() does
RowNumberedFromZero(df, key_column, natural_key) ==
    { { [r EXCEPT ![key_column] = @ - 1] : r \in keyed } :
        keyed \in RowNumbered(df, key_column, natural_key) }

\* dim_tables.generate_surrogate_key
generate_surrogate_key(df, key_column, natural_key) ==
    RowNumbered(df, key_column, natural_key)

\* fact_sales.generate_surrogate_keys, called with a partition_column
generate_surrogate_keys(df, key_column, partition_column) ==
    RowNumbered(df, key_column, partition_column)

-----------------------------------------------------------------------------
(* Gold: the dimension builders *)

RECURSIVE SumTotalAmount(_)
SumTotalAmount(rows) ==
    IF rows = {} THEN 0
    ELSE LET r == CHOOSE x \in rows : TRUE
         IN  Val(r.total_amount) + SumTotalAmount(rows \ {r})

MinOf(S) == CHOOSE m \in S : \A x \in S : m <= x
MaxOf(S) == CHOOSE m \in S : \A x \in S : x <= m

\* orders.groupBy("customer_id").agg(...) for one customer_id; sum and avg
\* skip null amounts; avg is kept as the pair <<sum, count>>
customer_metrics(orders, c) ==
    LET mine == { o \in orders : o.customer_id = c }
        paid == { o \in mine : ~IsNull(o.total_amount) }
    IN  [total_orders |-> Some(Cardinality(mine)),
         total_spend |-> IF paid = {} THEN Null ELSE Some(SumTotalAmount(paid)),
         first_order_date |-> Some(MinOf({ o.order_date : o \in mine })),
         last_order_date |-> Some(MaxOf({ o.order_date : o \in mine })),
         avg_order_value |->
             IF paid = {} THEN Null
             ELSE Some(<<SumTotalAmount(paid), Cardinality(paid)>>)]

NoMetrics ==
    [total_orders |-> Null, total_spend |-> Null, first_order_date |-> Null,
     last_order_date |-> Null, avg_order_value |-> Null]

\* tiers that start above their thresholds instead of at them
ValueTierExclusive(total_spend) ==
    IF IsNull(total_spend) THEN "bronze"
    ELSE IF Val(total_spend) > 100000 THEN "platinum"
    ELSE IF Val(total_spend) > 50000 THEN "gold"
    ELSE IF Val(total_spend) > 10000 THEN "silver"
    ELSE "bronze"

\* spend thresholds in cents; a null spend falls through to "bronze"
ValueTier(total_spend) ==
    IF IsNull(total_spend) THEN "bronze"
    ELSE IF Val(total_spend) >= 100000 THEN "platinum"
    ELSE IF Val(total_spend) >= 50000 THEN "gold"
    ELSE IF Val(total_spend) >= 10000 THEN "silver"
    ELSE "bronze"

CustomerStatus(total_orders, days_since_last_order) ==
    IF IsNull(total_orders) THEN "prospect"
    ELSE IF ~IsNull(days_since_last_order) /\ Val(days_since_last_order) > 365 THEN "churned"
    ELSE IF ~IsNull(days_since_last_order) /\ Val(days_since_last_order) > 90 THEN "at_risk"
    ELSE "active"

\* one row of customers.join(customer_metrics, "customer_id", "left") with
\* the derived columns, as selected into dim_customer (without its key)
DimCustomerRow(c, orders, ts) ==
    LET m == IF \E o \in orders : o.customer_id = c.customer_id
             THEN customer_metrics(orders, c.customer_id) ELSE NoMetrics
        days == NSub(Some(DateOf(ts)), m.last_order_date)
    IN  [customer_id |-> c.customer_id,
         email |-> c.email,
         is_valid_email |-> c.is_valid_email,
         value_tier |-> ValueTier(m.total_spend),
         customer_status |-> CustomerStatus(m.total_orders, days),
         total_orders |-> IF IsNull(m.total_orders) THEN Some(0) ELSE m.total_orders,
         total_spend |-> IF IsNull(m.total_spend) THEN Some(0) ELSE m.total_spend,
         first_order_date |-> m.first_order_date,
         last_order_date |-> m.last_order_date,
         avg_order_value |-> m.avg_order_value,
         days_since_last_order |-> days,
         effective_to |-> Null,
         is_current |-> TRUE,
         _created_at |-> ts]

\* the tables build_dim_customer can write when run at time ts
dim_customer_final(customers, orders, ts) ==
    generate_surrogate_key({ DimCustomerRow(c, orders, ts) : c \in customers },
                           "customer_key", "customer_id")

PriceTier(price) ==
    IF IsNull(price) THEN "economy"
    ELSE IF Val(price) >= 50000 THEN "premium"
    ELSE IF Val(price) >= 10000 THEN "mid_range"
    ELSE IF Val(price) >= 2500 THEN "budget"
    ELSE "economy"

DimProductRow(p, ts) ==
    [product_id |-> p.product_id,
     price |-> p.price,
     cost |-> p.cost,
     margin_percent |-> p.margin_percent,
     price_tier |-> PriceTier(p.price),
     is_high_margin |->
         IF IsNull(p.margin_percent) THEN Null ELSE Some(Val(p.margin_percent) >= 4000),
     effective_to |-> Null,
     is_current |-> TRUE,
     _created_at |-> ts]

\* the tables build_dim_product can write when run at time ts
dim_product_final(products, ts) ==
    generate_surrogate_key({ DimProductRow(p, ts) : p \in products },
                           "product_key", "product_id")

\* a row keyed by year and month only (YYYYMM)
DimDateRowMonthKey(n, ts) ==
    LET civil == CivilOf(n)
    IN  [date |-> n,
         date_key |-> civil.year * 100 + civil.month,
         day_of_month |-> civil.day,
         month |-> civil.month,
         year |-> civil.year,
         _created_at |-> ts]

\* the row of dim_date for the date n
DimDateRow(n, ts) ==
    LET civil == CivilOf(n)
    IN  [date |-> n,
         date_key |-> civil.year * 10000 + civil.month * 100 + civil.day,
         day_of_month |-> civil.day,
         month |-> civil.month,
         year |-> civil.year,
         _created_at |-> ts]

\* a date table that starts at the day of the build instead of 1 January
dim_date_from_today(start_year, end_year, ts) ==
    LET start_date == DayNumber(start_year, 1, 1)
        end_date == DayNumber(end_year, 12, 31)
        num_days == (end_date - start_date) + 1
    IN  { DimDateRow(DateOf(ts) + i, ts) : i \in 0..(num_days - 1) }

\* the table build_dim_date writes: one row for each of the num_days days
\* from 1 January start_year
dim_date(start_year, end_year, ts) ==
    LET start_date == DayNumber(start_year, 1, 1)
        end_date == DayNumber(end_year, 12, 31)
        num_days == (end_date - start_date) + 1
    IN  { DimDateRow(start_date + i, ts) : i \in 0..(num_days - 1) }

-----------------------------------------------------------------------------
(* Gold: build_fact_sales *)

\* the column lists the Silver transformers select
OrdersSchema ==
    <<"order_id", "customer_id", "order_date", "order_year", "order_month",
      "order_day", "order_day_of_week", "order_week", "status", "payment_method",
      "subtotal", "tax_amount", "shipping_amount", "discount_amount",
      "total_amount", "calculated_total", "is_total_valid", "currency",
      "shipping_country", "shipping_city", "_source_file", "_ingested_at",
      "_processed_at">>

OrderItemsSchema ==
    <<"order_item_id", "order_id", "product_id", "quantity", "unit_price",
      "gross_amount", "discount_percent", "discount_amount", "line_total",
      "calculated_line_total", "is_line_total_valid", "_source_file",
      "_ingested_at", "_processed_at">>

\* columns of left.join(right, on): the join column once, then the other
\* columns of the left side, then those of the right side
JoinColumns(left, right, on) ==
    LET Other(c) == c # on
    IN  <<on>> \o SelectSeq(left, Other) \o SelectSeq(right, Other)

Occurrences(cols, name) == Cardinality({ i \in DOMAIN cols : cols[i] = name })

\* columns of fact_base and of fact_sales before the final select
FactBaseColumns ==
    JoinColumns(
        JoinColumns(JoinColumns(OrderItemsSchema, OrdersSchema, "order_id"),
                    <<"customer_id", "customer_key">>, "customer_id"),
        <<"product_id", "cost", "product_key">>, "product_id")

FactFrameColumns ==
    FactBaseColumns \o
    <<"date_key", "gross_revenue", "net_revenue", "cost_of_goods", "profit",
      "profit_margin_pct", "allocated_tax", "allocated_shipping", "sale_key">>

\* the names in fact_sales.select(...)
FactSelect ==
    <<"sale_key", "date_key", "customer_key", "product_key", "order_id",
      "order_item_id", "order_date", "status", "payment_method",
      "shipping_country", "quantity", "unit_price", "discount_percent",
      "gross_revenue", "discount_amount", "net_revenue", "cost_of_goods",
      "profit", "profit_margin_pct", "allocated_tax", "allocated_shipping">>

\* df.select(names) on a frame with columns cols: a name that is missing or
\* that several columns carry cannot be resolved
SelectOutcome(cols, names) ==
    IF \A i \in DOMAIN names : Occurrences(cols, names[i]) = 1
    THEN "ok" ELSE "AnalysisException"

\* round(a * b / d, 2) on amounts in cents; a zero divisor gives null
AllocatedShare(a, b, d) ==
    IF IsNull(a) \/ IsNull(b) \/ IsNull(d) THEN Null
    ELSE IF Val(d) = 0 THEN Null
    ELSE IF Val(d) > 0 THEN Some(RoundDiv(Val(a) * Val(b), Val(d)))
    ELSE Some(RoundDiv(-(Val(a) * Val(b)), -Val(d)))

\* profit / net_revenue * 100 in hundredths of a percent, 0 unless net_revenue > 0
ProfitMarginPct(profit, net_revenue) ==
    IF ~IsNull(net_revenue) /\ Val(net_revenue) > 0
    THEN IF IsNull(profit) THEN Null
         ELSE Some(RoundDiv(Val(profit) * 10000, Val(net_revenue)))
    ELSE Some(0)

\* a lookup numbered against the sort: the largest customer_id gets key 1
CustomerLookupDescending(customers) ==
    { { [r EXCEPT !.customer_key = Cardinality(customers) + 1 - @] : r \in keyed } :
        keyed \in generate_surrogate_keys(
                     { [customer_id |-> c.customer_id] : c \in customers },
                     "customer_key", "customer_id") }

\* customers.select("customer_id").distinct() with its surrogate key
CustomerLookup(customers) ==
    generate_surrogate_keys({ [customer_id |-> c.customer_id] : c \in customers },
                            "customer_key", "customer_id")

\* products.select("product_id", "cost").distinct() with its surrogate key
ProductLookup(products) ==
    generate_surrogate_keys(
        { [product_id |-> p.product_id, cost |-> p.cost] : p \in products },
        "product_key", "product_id")

\* one row of fact_base with the measures added; the row keeps the order
\* item and the order it was joined from, which both carry discount_amount
FactMeasures(i, o, c, p) ==
    LET gross_revenue == NMul(i.quantity, i.unit_price)
        net_revenue == i.line_total
        cost_of_goods == NMul(i.quantity, p.cost)
        profit == NSub(net_revenue, cost_of_goods)
    IN  [order_item_id |-> i.order_item_id,
         order_id |-> i.order_id,
         customer_id |-> o.customer_id,
         product_id |-> i.product_id,
         item |-> i,
         order |-> o,
         customer_key |-> c.customer_key,
         product_key |-> p.product_key,
         date_key |-> create_date_key(o.order_date),
         gross_revenue |-> gross_revenue,
         net_revenue |-> net_revenue,
         cost_of_goods |-> cost_of_goods,
         profit |-> profit,
         profit_margin_pct |-> ProfitMarginPct(profit, net_revenue),
         allocated_tax |-> AllocatedShare(o.tax_amount, i.line_total, o.subtotal),
         allocated_shipping |->
             AllocatedShare(o.shipping_amount, i.line_total, o.subtotal)]

\* order_items inner-joined to orders, to the customer lookup and to the
\* product lookup
FactBase(order_items, orders, dim_customer, dim_product) ==
    { FactMeasures(i, o, c, p) :
        <<i, o, c, p>> \in
            { q \in order_items \X orders \X dim_customer \X dim_product :
                /\ q[1].order_id = q[2].order_id
                /\ q[2].customer_id = q[3].customer_id
                /\ q[1].product_id = q[4].product_id } }

\* the frames fact_sales can be after the sale_key is added
FactFrames(sv) ==
    UNION { UNION { generate_surrogate_keys(
                        FactBase(sv["order_items"], sv["orders"], dc, dp),
                        "sale_key", "order_item_id") :
                    dp \in ProductLookup(sv["products"]) } :
            dc \in CustomerLookup(sv["customers"]) }

\* the row fact_sales.select(...) gives for a frame row
FactSelected(f, ts) ==
    [sale_key |-> f.sale_key, date_key |-> f.date_key,
     customer_key |-> f.customer_key, product_key |-> f.product_key,
     order_id |-> f.order_id, order_item_id |-> f.order_item_id,
     order_date |-> f.order.order_date,
     quantity |-> f.item.quantity, unit_price |-> f.item.unit_price,
     discount_percent |-> f.item.discount_percent,
     gross_revenue |-> f.gross_revenue,
     discount_amount |->
         IF Occurrences(OrderItemsSchema, "discount_amount") = 1
         THEN f.item.discount_amount ELSE f.order.discount_amount,
     net_revenue |-> f.net_revenue, cost_of_goods |-> f.cost_of_goods,
     profit |-> f.profit, profit_margin_pct |-> f.profit_margin_pct,
     allocated_tax |-> f.allocated_tax,
     allocated_shipping |-> f.allocated_shipping,
     _created_at |-> ts]

-----------------------------------------------------------------------------
(* Gold jobs on a Silver snapshot (SpecGold) *)

\* order dates: 1, 2, ... December 2023 (conftest ORD-001 is 2023-12-01)
OrderDay(o) == DayNumber(2023, 12, o)

\* conftest ORD-002
ValidOrderAmounts ==
    [subtotal |-> Some(12999), tax_amount |-> Some(2470),
     shipping_amount |-> Some(599), discount_amount |-> Some(1000),
     total_amount |-> Some(15068)]

\* conftest ITEM-002
ValidItem ==
    [quantity |-> Some(1), unit_price |-> Some(12999),
     discount_percent |-> Some(0), line_total |-> Some(12999)]

\* the Silver table a run at time ts leaves for Bronze rows df
SilverOf(t, df, ts) == CHOOSE out \in Transformed(t, df, ts) : TRUE

\* the state in which Bronze holds customers cs, products ps, orders 1..no
\* with order o of customer oc[o], and order items 1..ni with item i of
\* order io[i] and product ip[i], and Silver was built from it
GoldSnapshot(cs, ps, no, ni, oc, io, ip) ==
    /\ now = MaxIngest
    /\ bronze =
         [t \in Tables |->
            add_bronze_metadata(
              CASE t = "customers" ->
                     { [customer_id |-> c, email |-> Some("JOHN.DOE@EXAMPLE.COM")] :
                         c \in cs }
                [] t = "products" ->
                     { RawProduct(p, [price |-> Some(59999), cost |-> Some(35000)]) :
                         p \in ps }
                [] t = "orders" ->
                     { RawOrder(o, oc[o], OrderDay(o), ValidOrderAmounts) :
                         o \in 1..no }
                [] t = "order_items" ->
                     { RawItem(i, io[i], ip[i], ValidItem) : i \in 1..ni },
              SourcePath(t), 1)]
    /\ silverIn = bronze
    /\ silver = [t \in Tables |-> SilverOf(t, bronze[t], MaxIngest)]
    /\ GoldInit
    /\ self_df = NoFrame
    /\ results = <<>>
    /\ returned = NoCall
    /\ jobLog = NoJob
    /\ RunnerIdle

\* Silver snapshots: any customers and products; orders 1..k, each of any
\* customer id; order items 1..k, each of any order id and product id.  An
\* order of an absent customer, an item of an absent order or product are
\* the orphans.
InitGold ==
    \E cs \in (SUBSET Ids) \ {{}}, ps \in (SUBSET Ids) \ {{}} :
    \E no \in 1..NumIds, ni \in 1..MaxRows :
    \E oc \in [1..no -> Ids], io \in [1..ni -> Ids], ip \in [1..ni -> Ids] :
       GoldSnapshot(cs, ps, no, ni, oc, io, ip)

Written(rows, args) == [written |-> TRUE, rows |-> rows, args |-> args]

\* df.write.mode("overwrite").parquet(gold/g)
Overwrite(g, rows, args) ==
    /\ gold' = [gold EXCEPT ![g] = Written(rows, args)]
    /\ goldPrev' = [goldPrev EXCEPT ![g] = gold[g]]

\* build_dim_customer: reads Silver customers and orders, overwrites
\* gold/dim_customer
build_dim_customer ==
    /\ silver["customers"] # {} /\ silver["orders"] # {}
    /\ \E out \in dim_customer_final(silver["customers"], silver["orders"], now) :
          Overwrite("dim_customer", out, <<>>)
    /\ UNCHANGED <<localVars, aggVars, returned, now, bronze, silver, silverIn, factRun, factFrame, self_df, results, jobLog>>

\* build_dim_product: reads Silver products, overwrites gold/dim_product
build_dim_product ==
    /\ silver["products"] # {}
    /\ \E out \in dim_product_final(silver["products"], now) :
          Overwrite("dim_product", out, <<>>)
    /\ UNCHANGED <<localVars, aggVars, returned, now, bronze, silver, silverIn, factRun, factFrame, self_df, results, jobLog>>

\* build_dim_date: overwrites gold/dim_date
build_dim_date(start_year, end_year) ==
    /\ Overwrite("dim_date", dim_date(start_year, end_year, now), <<start_year, end_year>>)
    /\ UNCHANGED <<localVars, aggVars, returned, now, bronze, silver, silverIn, factRun, factFrame, self_df, results, jobLog>>

\* build_fact_sales: the frame is built, then the final select resolves its
\* names against the frame's columns; only if it does is the table written
build_fact_sales ==
    IF \E t \in Tables : silver[t] = {}
    THEN /\ factRun' = "AnalysisException"
         /\ factFrame' = {}
         /\ UNCHANGED <<localVars, aggVars, returned, now, bronze, silver, silverIn, gold, goldPrev, self_df, results, jobLog>>
    ELSE \E frame \in FactFrames(silver) :
         /\ factFrame' = frame
         /\ IF SelectOutcome(FactFrameColumns, FactSelect) = "ok"
            THEN /\ factRun' = "written"
                 /\ Overwrite("fact_sales", { FactSelected(f, now) : f \in frame }, <<>>)
            ELSE /\ factRun' = "AnalysisException"
                 /\ UNCHANGED <<gold, goldPrev>>
         /\ UNCHANGED <<localVars, aggVars, returned, now, bronze, silver, silverIn, self_df, results, jobLog>>

NextGold ==
    \/ build_dim_customer
    \/ build_dim_product
    \/ build_fact_sales

SpecGold == InitGold /\ [][NextGold]_vars

-----------------------------------------------------------------------------
(* Rebuilding Gold over time on an unchanged Silver snapshot (SpecRebuild) *)

\* years the date dimension is built for: a common year and a leap year
DateRanges == { <<2023, 2023>>, <<2024, 2024>> }

\* the snapshot in which every customer and product is present, order o is
\* of customer o, and item i is of order i and product i
InitRebuild ==
    GoldSnapshot(Ids, Ids, NumIds, MaxRows,
                 [o \in 1..NumIds |-> o], [i \in 1..MaxRows |-> i],
                 [i \in 1..MaxRows |-> i])

NextRebuild ==
    \/ build_dim_customer
    \/ build_dim_product
    \/ \E yrs \in DateRanges : build_dim_date(yrs[1], yrs[2])
    \/ build_fact_sales
    \/ Tick

SpecRebuild == InitRebuild /\ [][NextRebuild]_vars

-----------------------------------------------------------------------------
(* build_dim_customer on customers whose orders range over the spend and   *)
(* recency thresholds (SpecCustomers)                                      *)

\* the state in which Bronze holds the raw rows raw[t], ingested at tick 1,
\* and Silver was built from it at tick MaxIngest
SilverSnapshot(raw) ==
    /\ now = MaxIngest
    /\ bronze = [t \in Tables |-> add_bronze_metadata(raw[t], SourcePath(t), 1)]
    /\ silverIn = bronze
    /\ silver = [t \in Tables |->
                   IF bronze[t] = {} THEN {} ELSE SilverOf(t, bronze[t], MaxIngest)]
    /\ GoldInit
    /\ self_df = NoFrame
    /\ results = <<>>
    /\ returned = NoCall
    /\ jobLog = NoJob
    /\ RunnerIdle

\* order totals on both sides of the value_tier thresholds, and a missing one
SpendSamples ==
    { Null, Some(9999), Some(10000), Some(49999), Some(50000), Some(99999),
      Some(100000) }

\* order ages in days on both sides of the customer_status thresholds
OrderAgeSamples == {90, 91, 365, 366}

SegmentOrders ==
    { [customer_id |-> c, order_date |-> DateOf(MaxIngest) - age,
       amounts |-> [ValidOrderAmounts EXCEPT !.total_amount = total]] :
        c \in Ids, age \in OrderAgeSamples, total \in SpendSamples }

\* every customer of Ids, and one or two orders; a customer none of them
\* belongs to has no order
InitCustomers ==
    \E os \in { <<a>> : a \in SegmentOrders }
              \cup { <<a, b>> : a \in SegmentOrders, b \in SegmentOrders } :
       SilverSnapshot(
           [t \in Tables |->
              CASE t = "customers" ->
                     { [customer_id |-> c, email |-> Some("JOHN.DOE@EXAMPLE.COM")] :
                         c \in Ids }
                [] t = "orders" ->
                     { RawOrder(o, os[o].customer_id, os[o].order_date, os[o].amounts) :
                         o \in DOMAIN os }
                [] OTHER -> {}])

NextCustomers == build_dim_customer

SpecCustomers == InitCustomers /\ [][NextCustomers]_vars

-----------------------------------------------------------------------------
(* build_fact_sales on orders with and without a subtotal (SpecFact)       *)

\* conftest ORD-002, and an order of free items: only shipping is charged
FactOrderAmounts ==
    { ValidOrderAmounts,
      [subtotal |-> Some(0), tax_amount |-> Some(0), shipping_amount |-> Some(599),
       discount_amount |-> Some(0), total_amount |-> Some(599)] }

\* line totals: the whole subtotal of ORD-002, a third of it, nothing, missing
LineTotalSamples == { Some(12999), Some(4333), Some(0), Null }

\* an undiscounted single item sold for line_total
ItemOfLineTotal(line_total) ==
    [quantity |-> Some(1),
     unit_price |-> IF IsNull(line_total) THEN Some(12999) ELSE line_total,
     discount_percent |-> Some(0), line_total |-> line_total]

\* customer 1 and product 1; orders 1..no of customer 1 with amounts oa[o];
\* items 1..ni of product 1, item i of order io[i] with line total lt[i]
InitFact ==
    \E no \in 1..NumIds, ni \in 1..MaxRows :
    \E oa \in [1..no -> FactOrderAmounts], io \in [1..ni -> 1..no],
       lt \in [1..ni -> LineTotalSamples] :
       SilverSnapshot(
           [t \in Tables |->
              CASE t = "customers" ->
                     { [customer_id |-> 1, email |-> Some("JOHN.DOE@EXAMPLE.COM")] }
                [] t = "products" ->
                     { RawProduct(1, [price |-> Some(59999), cost |-> Some(35000)]) }
                [] t = "orders" ->
                     { RawOrder(o, 1, OrderDay(o), oa[o]) : o \in 1..no }
                [] t = "order_items" ->
                     { RawItem(i, io[i], 1, ItemOfLineTotal(lt[i])) : i \in 1..ni }])

NextFact == build_fact_sales

SpecFact == InitFact /\ [][NextFact]_vars

-----------------------------------------------------------------------------
(* The aggregate builders over a stored fact table (SpecAggregates)        *)

\* the columns of the table build_fact_sales selects
FactTableColumns == FactSelect \o <<"_created_at">>

\* the columns build_product_performance selects from Silver products
ProductSelect == <<"product_id", "name", "category", "subcategory", "brand">>

\* df.join(other, name, "inner"): the name has to be a column of both sides
JoinOutcome(left, right, name) ==
    IF Occurrences(left, name) >= 1 /\ Occurrences(right, name) >= 1
    THEN "ok" ELSE "AnalysisException"

Aggregated(builder, outcome) == [builder |-> builder, outcome |-> outcome]

RECURSIVE SumColumn(_, _)
\* F.sum(col) over the rows of a group: nulls are skipped, and the sum of no
\* value at all is null
SumColumn(rows, col) ==
    IF rows = {} THEN Null
    ELSE LET r == CHOOSE x \in rows : TRUE
             rest == SumColumn(rows \ {r}, col)
         IN  IF IsNull(r[col]) THEN rest
             ELSE IF IsNull(rest) THEN r[col]
             ELSE NAdd(r[col], rest)

\* F.round(n / d, 2) for n in units of scale hundredths: null if n is null,
\* null if d is 0
RoundedRatio(n, d, scale) ==
    IF IsNull(n) THEN Null
    ELSE IF d = 0 THEN Null
    ELSE Some(RoundDiv(scale * Val(n), d))

\* the summary row of one (date_key, shipping_country) group; amounts in
\* cents, items_per_order in hundredths
DailySummaryRow(group_rows, date_key, shipping_country, ts) ==
    LET total_orders == Cardinality({ r.order_id : r \in group_rows })
        total_items_sold == SumColumn(group_rows, "quantity")
        net_revenue == SumColumn(group_rows, "net_revenue")
    IN  [date_key |-> date_key,
         shipping_country |-> shipping_country,
         total_orders |-> total_orders,
         total_items_sold |-> total_items_sold,
         gross_revenue |-> SumColumn(group_rows, "gross_revenue"),
         net_revenue |-> net_revenue,
         total_profit |-> SumColumn(group_rows, "profit"),
         unique_customers |-> Cardinality({ r.customer_key : r \in group_rows }),
         avg_order_value |-> RoundedRatio(net_revenue, total_orders, 1),
         items_per_order |-> RoundedRatio(total_items_sold, total_orders, 100),
         _created_at |-> ts]

\* fact_sales.groupBy("date_key", "shipping_country").agg(...)
daily_summary(fact_sales, ts) ==
    { DailySummaryRow({ r \in fact_sales : /\ r.date_key = k[1]
                                           /\ r.shipping_country = k[2] },
                      k[1], k[2], ts) :
        k \in { <<r.date_key, r.shipping_country>> : r \in fact_sales } }

\* build_daily_sales_summary: reading a path nothing was written to raises
build_daily_sales_summary ==
    /\ IF gold["fact_sales"].written
       THEN /\ Overwrite("agg_daily_sales",
                         daily_summary(gold["fact_sales"].rows, now), <<>>)
            /\ aggRun' = Aggregated("build_daily_sales_summary", "written")
       ELSE /\ aggRun' = Aggregated("build_daily_sales_summary", "AnalysisException")
            /\ UNCHANGED <<gold, goldPrev>>
    /\ UNCHANGED <<localVars, product_metrics, product_ranks, returned, now, bronze, silver,
                   silverIn, factRun, factFrame, self_df, results, jobLog>>

\* the groupBy of build_product_performance over the joined rows: one row
\* per product with its category and the sum of its net revenue
ProductMetrics(fact_sales, products) ==
    { [product_id |-> p.product_id,
       category |-> p.category,
       total_revenue |->
           SumColumn({ r \in fact_sales : r.product_id = p.product_id },
                     "net_revenue")] :
        p \in { q \in products : \E r \in fact_sales : r.product_id = q.product_id } }

\* total_revenue a sorts strictly before b under orderBy(desc): descending,
\* nulls last
RevenueBefore(a, b) == ~IsNull(a) /\ (IsNull(b) \/ Val(a) > Val(b))

\* row_number() over partitionBy("category").orderBy(total_revenue desc):
\* within a category the rows are numbered from 1 in an order that sorts
\* them by total_revenue; rows of equal total_revenue come in any order
RevenueRanked(metrics) ==
    LET n == Cardinality(metrics)
        numberings ==
            { f \in [metrics -> 1..n] :
                /\ \A r \in metrics :
                     f[r] <= Cardinality({ x \in metrics : x.category = r.category })
                /\ \A r, s \in metrics :
                     (r # s /\ r.category = s.category) => f[r] # f[s]
                /\ \A r, s \in metrics :
                     (/\ r.category = s.category
                      /\ RevenueBefore(r.total_revenue, s.total_revenue))
                     => f[r] < f[s] }
    IN  { { r @@ [revenue_rank_in_category |-> f[r]] : r \in metrics } :
            f \in numberings }

\* build_product_performance: the stored fact table is joined with Silver
\* products on product_id before anything is grouped or ranked
build_product_performance ==
    LET outcome ==
            IF ~gold["fact_sales"].written THEN "AnalysisException"
            ELSE JoinOutcome(FactTableColumns, ProductSelect, "product_id")
    IN  /\ IF outcome = "ok"
           THEN /\ product_metrics' =
                       ProductMetrics(gold["fact_sales"].rows, silver["products"])
                /\ product_ranks' \in RevenueRanked(product_metrics')
                /\ Overwrite("agg_product_performance",
                             { r @@ [_created_at |-> now] : r \in product_ranks' },
                             <<>>)
                /\ aggRun' = Aggregated("build_product_performance", "written")
           ELSE /\ aggRun' = Aggregated("build_product_performance", outcome)
                /\ UNCHANGED <<product_metrics, product_ranks, gold, goldPrev>>
        /\ UNCHANGED <<localVars, returned, now, bronze, silver, silverIn, factRun, factFrame,
                       self_df, results, jobLog>>

\* conftest ORD-001 ships to DE and ORD-002 to FR; a missing country is kept
ShippingCountries == { Some("DE"), Some("FR"), Null }

\* items of one and of two pieces, and an item without quantity or total
SummaryItems ==
    { ItemOfLineTotal(Some(12999)), ItemOfLineTotal(Some(4333)),
      [quantity |-> Some(2), unit_price |-> Some(1),
       discount_percent |-> Some(0), line_total |-> Some(2)],
      [quantity |-> Null, unit_price |-> Some(4333),
       discount_percent |-> Some(0), line_total |-> Null] }

\* the stored row of a frame row: the selected columns, shipping_country of
\* the row's order among them
FactTableRow(f, shipping_country, ts) ==
    FactSelected(f, ts) @@ [shipping_country |-> shipping_country]

\* Silver holds customer 1, product 1, orders 1..no of customer 1 placed on
\* day od[o] and shipped to sc[o], and items 1..ni of product 1; the Gold
\* store holds no fact table, as build_fact_sales leaves it, or a table with
\* the columns of fact_sales_final selected from one of the frames of Silver
InitAggregates ==
    \E no \in 1..NumIds, ni \in 1..MaxRows, stored \in BOOLEAN :
    \E od \in [1..no -> 1..2], sc \in [1..no -> ShippingCountries],
       io \in [1..ni -> 1..no], it \in [1..ni -> SummaryItems] :
       LET raw == [t \in Tables |->
                     CASE t = "customers" ->
                            { [customer_id |-> 1,
                               email |-> Some("JOHN.DOE@EXAMPLE.COM")] }
                       [] t = "products" ->
                            { RawProduct(1, [price |-> Some(59999),
                                             cost |-> Some(35000)]) }
                       [] t = "orders" ->
                            { RawOrder(o, 1, OrderDay(od[o]), ValidOrderAmounts) :
                                o \in 1..no }
                       [] t = "order_items" ->
                            { RawItem(i, io[i], 1, it[i]) : i \in 1..ni }]
           bz == [t \in Tables |-> add_bronze_metadata(raw[t], SourcePath(t), 1)]
           sv == [t \in Tables |-> SilverOf(t, bz[t], MaxIngest)]
       IN  /\ now = MaxIngest
           /\ bronze = bz
           /\ silverIn = bz
           /\ silver = sv
           /\ \E frame \in FactFrames(sv) :
                 gold = [g \in GoldTables |->
                           IF g = "fact_sales" /\ stored
                           THEN Written({ FactTableRow(f, sc[f.order_id], 1) :
                                            f \in frame }, <<>>)
                           ELSE NoTable]
           /\ goldPrev = [g \in GoldTables |-> NoTable]
           /\ factRun = "none"
           /\ factFrame = {}
           /\ aggRun = NoAggregate
           /\ product_metrics = {}
           /\ product_ranks = {}
           /\ self_df = NoFrame
           /\ results = <<>>
           /\ returned = NoCall
           /\ jobLog = NoJob
    /\ RunnerIdle

NextAggregates ==
    \/ build_daily_sales_summary
    \/ build_product_performance

SpecAggregates == InitAggregates /\ [][NextAggregates]_vars

-----------------------------------------------------------------------------
(* The ranking step of build_product_performance on drawn product metrics  *)
(* (SpecRanking)                                                           *)

MaxProducts == 3

\* the categories of the conftest products
Categories == {"electronics", "sports"}

\* total_revenue of a product: sum(net_revenue), null if no sale has one
RevenueSamples == { Some(10000), Some(20000), Null }

\* product_metrics holds one row for each of the products 1..n
InitRanking ==
    /\ now = MaxIngest
    /\ bronze = [t \in Tables |-> {}]
    /\ silverIn = bronze
    /\ silver = [t \in Tables |-> {}]
    /\ gold = [g \in GoldTables |-> NoTable]
    /\ goldPrev = gold
    /\ factRun = "none"
    /\ factFrame = {}
    /\ aggRun = NoAggregate
    /\ product_ranks = {}
    /\ \E n \in 1..MaxProducts :
       \E category \in [1..n -> Categories], total_revenue \in [1..n -> RevenueSamples] :
          product_metrics =
              { [product_id |-> p, category |-> category[p],
                 total_revenue |-> total_revenue[p]] : p \in 1..n }
    /\ self_df = NoFrame
    /\ results = <<>>
    /\ returned = NoCall
    /\ jobLog = NoJob
    /\ RunnerIdle

\* product_metrics.withColumn("revenue_rank_in_category", row_number().over(window))
revenue_rank_in_category ==
    /\ product_ranks' \in RevenueRanked(product_metrics)
    /\ UNCHANGED <<localVars, aggRun, product_metrics, returned, now, bronze, silver, silverIn,
                   gold, goldPrev, factRun, factFrame, self_df, results, jobLog>>

NextRanking == revenue_rank_in_category

SpecRanking == InitRanking /\ [][NextRanking]_vars

-----------------------------------------------------------------------------
(* The Bronze and Silver job runs over a list of tables, all within one    *)
(* clock tick (SpecJobs)                                                   *)

\* table names a job is started with; "returns" has no entry in SCHEMAS or
\* TRANSFORMATIONS
JobLists ==
    { <<"customers">>, <<"customers", "orders">>, <<"orders", "customers">>,
      <<"customers", "returns">>, <<"returns", "customers">> }

\* the raw file of table t holding the one row of key id
LandingRow(t, id) ==
    CASE t = "customers" ->
           [customer_id |-> id, email |-> Some("JOHN.DOE@EXAMPLE.COM")]
      [] t = "products" -> RawProduct(id, [price |-> Some(59999), cost |-> Some(35000)])
      [] t = "orders" -> RawOrder(id, 1, OrderDay(1), ValidOrderAmounts)
      [] t = "order_items" -> RawItem(id, 1, 1, ValidItem)

\* what a run can find as the raw file of table t: no file (Null), a file
\* without records, or a file with one row
LandingFiles(t) ==
    {Null, Some({})} \cup { Some({ LandingRow(t, id) }) : id \in Ids }

\* the landing zone at the time of a run: files for customers and orders,
\* none for the other tables
LandingZones ==
    { [t \in Tables |-> IF t = "customers" THEN c ELSE IF t = "orders" THEN o ELSE Null] :
        c \in LandingFiles("customers"), o \in LandingFiles("orders") }

\* a loop in which a file without records ends the run as a failure
RECURSIVE IngestTablesNoEmpty(_, _, _, _, _, _)
IngestTablesNoEmpty(tables, i, raw, ts, store, written) ==
    IF i > Len(tables)
    THEN [bronze |-> store, written |-> written, outcome |-> "succeeded"]
    ELSE LET t == tables[i]
         IN  IF t \notin Tables \/ IsNull(raw[t]) \/ Val(raw[t]) = {}
             THEN [bronze |-> store, written |-> written, outcome |-> "failed"]
             ELSE IngestTablesNoEmpty(tables, i + 1, raw, ts,
                      [store EXCEPT ![t] =
                          @ \cup add_bronze_metadata(Val(raw[t]), SourcePath(t), ts)],
                      written \cup {t})

\* a loop that logs a name without schema and goes on to the next table
RECURSIVE IngestTablesLenient(_, _, _, _, _, _)
IngestTablesLenient(tables, i, raw, ts, store, written) ==
    IF i > Len(tables)
    THEN [bronze |-> store, written |-> written, outcome |-> "succeeded"]
    ELSE LET t == tables[i]
         IN  IF t \notin Tables
             THEN IngestTablesLenient(tables, i + 1, raw, ts, store, written)
             ELSE IF IsNull(raw[t])
             THEN [bronze |-> store, written |-> written, outcome |-> "failed"]
             ELSE IF Val(raw[t]) = {}
             THEN IngestTablesLenient(tables, i + 1, raw, ts, store, written)
             ELSE IngestTablesLenient(tables, i + 1, raw, ts,
                      [store EXCEPT ![t] =
                          @ \cup add_bronze_metadata(Val(raw[t]), SourcePath(t), ts)],
                      written \cup {t})

\* the loop of ingest_raw_data.main from table i on: ingest_table raises for
\* a name without schema and for a source path that does not exist, returns
\* without writing when the file has no record, and else appends the batch
RECURSIVE IngestTables(_, _, _, _, _, _)
IngestTables(tables, i, raw, ts, store, written) ==
    IF i > Len(tables)
    THEN [bronze |-> store, written |-> written, outcome |-> "succeeded"]
    ELSE LET t == tables[i]
         IN  IF t \notin Tables \/ IsNull(raw[t])
             THEN [bronze |-> store, written |-> written, outcome |-> "failed"]
             ELSE IF Val(raw[t]) = {}
             THEN IngestTables(tables, i + 1, raw, ts, store, written)
             ELSE IngestTables(tables, i + 1, raw, ts,
                      [store EXCEPT ![t] =
                          @ \cup add_bronze_metadata(Val(raw[t]), SourcePath(t), ts)],
                      written \cup {t})

\* ingest_raw_data.main
bronze_main(tables, raw) ==
    LET run == IngestTables(tables, 1, raw, now, bronze, {})
    IN  /\ bronze' = run.bronze
        /\ jobLog' = [layer |-> "bronze", tables |-> tables,
                      written |-> run.written, outcome |-> run.outcome]
        /\ UNCHANGED <<localVars, aggVars, returned, now, silver, silverIn, gold, goldPrev, factRun, factFrame, self_df, results>>

\* df.write.mode("overwrite").partitionBy("_ingestion_date") under
\* partitionOverwriteMode = dynamic: the partitions df has rows for are
\* replaced, the others are kept
OverwritePartitions(stored, df) ==
    { r \in stored : \A n \in df : n._ingestion_date # r._ingestion_date } \cup df

\* run_local.run_bronze_layer: every table whose file exists is written
run_bronze_layer(raw) ==
    /\ bronze' = [t \in Tables |->
                    IF IsNull(raw[t]) THEN bronze[t]
                    ELSE OverwritePartitions(bronze[t],
                             add_bronze_metadata(Val(raw[t]), SourcePath(t), now))]
    /\ UNCHANGED <<localVars, aggVars, returned, now, silver, silverIn, gold, goldPrev, factRun, factFrame, self_df, results, jobLog>>

\* the Bronze rows process_table reads for table t; Null when the path
\* (the table, or the asked-for partition) does not exist.  The store keeps
\* rows only: emptied names the paths that exist and hold no row
BronzePath(store, t, processing_date, emptied) ==
    LET df == IF t \notin Tables THEN {}
              ELSE IF IsNull(processing_date) THEN store[t]
              ELSE { r \in store[t] : r._ingestion_date = Val(processing_date) }
    IN  IF df # {} THEN Some(df)
        ELSE IF t \in emptied THEN Some({})
        ELSE Null

\* the loop of transform_to_silver.main from table i on: every way it can
\* end.  process_table raises for a Bronze path that does not exist,
\* returns without writing when the path holds no row, raises for a name
\* without transformer, and else overwrites the Silver table
RECURSIVE ProcessTables(_, _, _, _, _, _, _, _)
ProcessTables(tables, i, processing_date, emptied, ts, sv, svIn, written) ==
    IF i > Len(tables)
    THEN { [silver |-> sv, silverIn |-> svIn, written |-> written,
            outcome |-> "succeeded"] }
    ELSE LET t == tables[i]
             source == BronzePath(bronze, t, processing_date, emptied)
         IN  IF IsNull(source)
             THEN { [silver |-> sv, silverIn |-> svIn, written |-> written,
                     outcome |-> "failed"] }
             ELSE IF Val(source) = {}
             THEN ProcessTables(tables, i + 1, processing_date, emptied, ts,
                                sv, svIn, written)
             ELSE IF t \notin Tables
             THEN { [silver |-> sv, silverIn |-> svIn, written |-> written,
                     outcome |-> "failed"] }
             ELSE UNION { ProcessTables(tables, i + 1, processing_date, emptied, ts,
                              [sv EXCEPT ![t] = out],
                              [svIn EXCEPT ![t] = Val(source)],
                              written \cup {t}) :
                          out \in Transformed(t, Val(source), ts) }

\* transform_to_silver.main
silver_main(tables, processing_date, emptied) ==
    /\ \E run \in ProcessTables(tables, 1, processing_date, emptied, now,
                                 silver, silverIn, {}) :
         /\ silver' = run.silver
         /\ silverIn' = run.silverIn
         /\ jobLog' = [layer |-> "silver", tables |-> tables,
                       written |-> run.written, outcome |-> run.outcome]
    /\ UNCHANGED <<localVars, aggVars, returned, now, bronze, gold, goldPrev, factRun, factFrame, self_df, results>>

\* the Bronze paths a Silver run can find existing without a row: none, the
\* one of orders, the one of a name without transformer
EmptiedPaths == { {}, {"orders"}, {"returns"} }

InitJobs ==
    /\ now = MaxIngest
    /\ bronze = [t \in Tables |-> {}]
    /\ silver = [t \in Tables |-> {}]
    /\ silverIn = [t \in Tables |-> {}]
    /\ GoldInit
    /\ self_df = NoFrame
    /\ results = <<>>
    /\ returned = NoCall
    /\ jobLog = NoJob
    /\ RunnerIdle

NextJobs ==
    \/ \E tables \in JobLists, raw \in LandingZones : bronze_main(tables, raw)
    \/ \E raw \in LandingZones : run_bronze_layer(raw)
    \/ \E tables \in JobLists :
         \E pd \in {Null} \cup { Some(d) : d \in DateOf(0)..DateOf(MaxIngest) } :
         \E emptied \in EmptiedPaths : silver_main(tables, pd, emptied)

SpecJobs == InitJobs /\ [][NextJobs]_vars

-----------------------------------------------------------------------------
(* The data-quality validator (SpecValidator) *)

MaxResults == 3      \* checks are recorded while results is shorter than this

CheckSeverity == {"warning", "error", "info"}

\* a Silver customers row with its processing timestamp
CustomerRow(customer_id, email, processed_at) ==
    [customer_id |-> customer_id, email |-> email, _processed_at |-> processed_at]

\* the customer frames a validator is constructed on: no row; clean rows
\* processed one and two ticks ago; a null e-mail and no timestamp at all; a
\* repeated customer_id processed three ticks ago
SampleFrames ==
    { [columns |-> <<"customer_id", "email", "_processed_at">>, rows |-> rows] :
        rows \in { {},
                   { CustomerRow(1, Some("a@example.com"), Some(MaxIngest - 2)),
                     CustomerRow(2, Some("b@example.com"), Some(MaxIngest - 1)) },
                   { CustomerRow(1, Some("a@example.com"), Null),
                     CustomerRow(2, Null, Null) },
                   { CustomerRow(1, Some("a@example.com"), Some(MaxIngest - 3)),
                     CustomerRow(1, Some("b@example.com"), Some(MaxIngest - 3)) } } }

HasColumn(frame, col_name) == \E i \in DOMAIN frame.columns : frame.columns[i] = col_name

\* self.total_count
total_count == Cardinality(self_df.rows)

\* a percentage is kept exactly, as the pair <<n, d>> of the quotient n / d
FailedPercentage(failed, count) ==
    IF count > 0 THEN <<failed * 100, count>> ELSE <<0, 1>>

\* failed_percentage of a result made without one: the default 0.0
DefaultPercentage == <<0, 1>>

QualityCheckResult(check_name, passed, severity, failed_count, count, failed_percentage) ==
    [check_name |-> check_name, passed |-> passed, severity |-> severity,
     failed_count |-> failed_count, total_count |-> count,
     failed_percentage |-> failed_percentage]

\* a check method called with args has returned value
Called(method, args, value) ==
    [method |-> method, args |-> args, value |-> value, raised |-> "none"]

\* a check method called with args has raised exception
Raised(method, args, exception) ==
    [method |-> method, args |-> args, value |-> <<>>, raised |-> exception]

\* the value of column col_name in row r, Null for a null
Cell(r, col_name) ==
    IF col_name = "customer_id" /\ "email" \in DOMAIN r
    THEN Some(r.customer_id) ELSE r[col_name]

\* what check_not_null appends to self.results for the columns from i on: a
\* column the frame does not have gets a result in the returned list only
RECURSIVE NotNullResults(_, _, _)
NotNullResults(columns, i, severity) ==
    IF i > Len(columns) THEN <<>>
    ELSE IF ~HasColumn(self_df, columns[i])
    THEN NotNullResults(columns, i + 1, severity)
    ELSE LET null_count ==
                 Cardinality({ r \in self_df.rows : IsNull(Cell(r, columns[i])) })
         IN  <<QualityCheckResult("not_null_" \o columns[i], null_count = 0,
                                  severity, null_count, total_count,
                                  FailedPercentage(null_count, total_count))>>
             \o NotNullResults(columns, i + 1, severity)

\* the list check_not_null returns for the columns from i on: it also
\* holds the result made for a column the frame does not have
RECURSIVE NotNullReturned(_, _, _)
NotNullReturned(columns, i, severity) ==
    IF i > Len(columns) THEN <<>>
    ELSE IF ~HasColumn(self_df, columns[i])
    THEN <<QualityCheckResult("not_null_" \o columns[i], FALSE, "error", 0, 0,
                              DefaultPercentage)>>
         \o NotNullReturned(columns, i + 1, severity)
    ELSE NotNullResults(<<columns[i]>>, 1, severity)
         \o NotNullReturned(columns, i + 1, severity)

check_not_null(columns, severity) ==
    /\ Len(results) + Len(columns) <= MaxResults
    /\ results' = results \o NotNullResults(columns, 1, severity)
    /\ returned' = Called("check_not_null", <<columns, severity>>,
                          NotNullReturned(columns, 1, severity))
    /\ UNCHANGED <<localVars, aggVars, now, bronze, silver, silverIn, gold, goldPrev, factRun, factFrame,
                   self_df, jobLog>>

\* check_unique on the single column col_name; selecting a column the
\* frame does not have raises
check_unique(col_name, severity) ==
    LET distinct_count == Cardinality({ Cell(r, col_name) : r \in self_df.rows })
        duplicate_count == total_count - distinct_count
    IN  /\ Len(results) < MaxResults
        /\ IF HasColumn(self_df, col_name)
           THEN /\ results' = Append(results,
                       QualityCheckResult("unique_" \o col_name, duplicate_count = 0,
                                  severity, duplicate_count, total_count,
                                  FailedPercentage(duplicate_count, total_count)))
                /\ returned' = Called("check_unique", <<col_name, severity>>,
                       QualityCheckResult("unique_" \o col_name, duplicate_count = 0,
                                  severity, duplicate_count, total_count,
                                  FailedPercentage(duplicate_count, total_count)))
           ELSE /\ results' = results
                /\ returned' = Raised("check_unique", <<col_name, severity>>,
                                      "AnalysisException")
        /\ UNCHANGED <<localVars, aggVars, now, bronze, silver, silverIn, gold, goldPrev, factRun, factFrame,
                       self_df, jobLog>>

\* a check_row_count that starts the results list afresh
check_row_count_resetting(min_count, max_count, severity) ==
    LET count == total_count
        passed == /\ count >= min_count
                  /\ (~IsNull(max_count) => count <= Val(max_count))
        result == QualityCheckResult("row_count", passed, severity,
                                     IF passed THEN 0 ELSE 1, count, DefaultPercentage)
    IN  /\ Len(results) < MaxResults
        /\ results' = <<result>>
        /\ returned' = Called("check_row_count", <<min_count, max_count, severity>>,
                              result)
        /\ UNCHANGED <<localVars, aggVars, now, bronze, silver, silverIn, gold, goldPrev, factRun,
                       factFrame, self_df, jobLog>>

\* check_row_count; max_count is Null when not given
check_row_count(min_count, max_count, severity) ==
    LET count == total_count
        passed == /\ count >= min_count
                  /\ (~IsNull(max_count) => count <= Val(max_count))
    IN  /\ Len(results) < MaxResults
        /\ results' = Append(results,
               QualityCheckResult("row_count", passed, severity,
                                  IF passed THEN 0 ELSE 1, count, DefaultPercentage))
        /\ returned' = Called("check_row_count", <<min_count, max_count, severity>>,
               QualityCheckResult("row_count", passed, severity,
                                  IF passed THEN 0 ELSE 1, count, DefaultPercentage))
        /\ UNCHANGED <<localVars, aggVars, now, bronze, silver, silverIn, gold, goldPrev, factRun, factFrame,
                       self_df, jobLog>>

\* the hours between two clock ticks
HoursPerTick == 24 \div TicksPerDay

\* a check_freshness that takes the age of the newest timestamp without
\* asking whether there is one
check_freshness_unguarded(timestamp_column, max_age_hours, severity) ==
    LET stamps == { Val(Cell(r, timestamp_column)) :
                      r \in { x \in self_df.rows : ~IsNull(Cell(x, timestamp_column)) } }
        result == QualityCheckResult("freshness_" \o timestamp_column,
                      (now - MaxOf(stamps)) * HoursPerTick <= max_age_hours,
                      severity, 0, total_count, DefaultPercentage)
    IN  /\ Len(results) < MaxResults
        /\ IF HasColumn(self_df, timestamp_column) /\ stamps # {}
           THEN /\ results' = Append(results, result)
                /\ returned' = Called("check_freshness",
                       <<timestamp_column, max_age_hours, severity>>, result)
           ELSE /\ results' = results
                /\ returned' = Raised("check_freshness",
                       <<timestamp_column, max_age_hours, severity>>,
                       IF stamps = {} THEN "AttributeError" ELSE "AnalysisException")
        /\ UNCHANGED <<localVars, aggVars, now, bronze, silver, silverIn, gold, goldPrev, factRun,
                       factFrame, self_df, jobLog>>

\* check_freshness: the newest timestamp of the column, none if the frame
\* has no row with one, against the wall clock
check_freshness(timestamp_column, max_age_hours, severity) ==
    LET stamps == { Val(Cell(r, timestamp_column)) :
                      r \in { x \in self_df.rows : ~IsNull(Cell(x, timestamp_column)) } }
        max_ts == IF stamps = {} THEN Null
                  ELSE Some(MaxOf(stamps))
        age_hours == (now - Val(max_ts)) * HoursPerTick
        passed == IF IsNull(max_ts) THEN FALSE ELSE age_hours <= max_age_hours
        result == QualityCheckResult("freshness_" \o timestamp_column, passed,
                                     severity, 0, total_count, DefaultPercentage)
    IN  /\ Len(results) < MaxResults
        /\ IF HasColumn(self_df, timestamp_column)
           THEN /\ results' = Append(results, result)
                /\ returned' = Called("check_freshness",
                       <<timestamp_column, max_age_hours, severity>>, result)
           ELSE /\ results' = results
                /\ returned' = Raised("check_freshness",
                       <<timestamp_column, max_age_hours, severity>>,
                       "AnalysisException")
        /\ UNCHANGED <<localVars, aggVars, now, bronze, silver, silverIn, gold, goldPrev, factRun,
                       factFrame, self_df, jobLog>>

\* a walk over the results that also stops at a failed warning when
\* include_warnings is not set
RECURSIVE AllPassedStrictFrom(_, _)
AllPassedStrictFrom(i, include_warnings) ==
    IF i > Len(results) THEN TRUE
    ELSE IF ~results[i].passed /\ results[i].severity \in {"error", "warning"} THEN FALSE
    ELSE AllPassedStrictFrom(i + 1, include_warnings)

\* the loop of all_passed from results[i] on
RECURSIVE AllPassedFrom(_, _)
AllPassedFrom(i, include_warnings) ==
    IF i > Len(results) THEN TRUE
    ELSE IF ~results[i].passed /\ results[i].severity = "error" THEN FALSE
    ELSE IF ~results[i].passed /\ include_warnings /\ results[i].severity = "warning"
    THEN FALSE
    ELSE AllPassedFrom(i + 1, include_warnings)

all_passed(include_warnings) == AllPassedFrom(1, include_warnings)

\* get_summary: the row count, the number of passed checks and one line per
\* recorded result
get_summary ==
    [total_rows |-> total_count,
     checks_passed |-> Cardinality({ i \in DOMAIN results : results[i].passed }),
     lines |-> results]

\* DataQualityValidator(df, table_name)
InitValidator ==
    /\ now = MaxIngest
    /\ bronze = [t \in Tables |-> {}]
    /\ silver = [t \in Tables |-> {}]
    /\ silverIn = [t \in Tables |-> {}]
    /\ GoldInit
    /\ self_df \in SampleFrames
    /\ results = <<>>
    /\ returned = NoCall
    /\ jobLog = NoJob
    /\ RunnerIdle

NextValidator ==
    \/ \E columns \in { <<"email">>, <<"customer_id", "email">>, <<"phone">> },
          severity \in CheckSeverity : check_not_null(columns, severity)
    \/ \E col_name \in {"customer_id", "phone"}, severity \in CheckSeverity :
          check_unique(col_name, severity)
    \/ \E max_age_hours \in {12, 24}, severity \in CheckSeverity :
          check_freshness("_processed_at", max_age_hours, severity)
    \/ \E min_count \in {1, 3}, severity \in CheckSeverity :
          check_row_count(min_count, Null, severity)

SpecValidator == InitValidator /\ [][NextValidator]_vars

-----------------------------------------------------------------------------
(* The set, range and referential checks on an orders frame (SpecChecks)   *)

\* Spark's three-valued conditions: Null is the unknown truth value
NNot(c) == IF IsNull(c) THEN Null ELSE Some(~Val(c))
NAnd(c, d) ==
    IF c = Some(FALSE) \/ d = Some(FALSE) THEN Some(FALSE)
    ELSE IF IsNull(c) \/ IsNull(d) THEN Null
    ELSE Some(TRUE)
NEq(a, b) == IF IsNull(a) \/ IsNull(b) THEN Null ELSE Some(Val(a) = Val(b))
NGe(a, b) == IF IsNull(a) \/ IsNull(b) THEN Null ELSE Some(Val(a) >= Val(b))
NLe(a, b) == IF IsNull(a) \/ IsNull(b) THEN Null ELSE Some(Val(a) <= Val(b))
IsIn(a, values) == IF IsNull(a) THEN Null ELSE Some(Val(a) \in values)

\* df.filter(condition).count(): the rows whose condition is true
FilterCount(rows, condition) ==
    Cardinality({ r \in rows : condition[r] = Some(TRUE) })

OrderRow(id, customer_id, status, total_amount) ==
    [order_id |-> Some(id), customer_id |-> customer_id, status |-> status,
     total_amount |-> total_amount]

\* the orders frames a validator is constructed on: no row; clean rows; a
\* row of nulls; two rows of one unknown customer with a bad status and
\* amounts below and above the range; the unknown customer and the nulls
OrderFrames ==
    { [columns |-> <<"order_id", "customer_id", "status", "total_amount">>,
       rows |-> rows] :
        rows \in { {},
                   { OrderRow(1, Some(1), Some("pending"), Some(0)),
                     OrderRow(2, Some(2), Some("shipped"), Some(5)) },
                   { OrderRow(1, Null, Null, Null),
                     OrderRow(2, Some(1), Some("pending"), Some(5)) },
                   { OrderRow(1, Some(3), Some("lost"), Some(-1)),
                     OrderRow(2, Some(3), Some("lost"), Some(6)) },
                   { OrderRow(1, Some(3), Some("lost"), Some(-1)),
                     OrderRow(2, Null, Null, Null) } } }

\* the customers frames given as reference: none, two customers, the two
\* and a row with a null key, the null key alone
ReferenceFrames ==
    { [columns |-> <<"customer_id">>, rows |-> { [customer_id |-> k] : k \in keys }] :
        keys \in { {}, {Some(1), Some(2)}, {Some(1), Some(2), Null}, {Null} } }

check_values_in_set(column, valid_values, severity) ==
    LET NotInSet(r) == NNot(IsIn(Cell(r, column), valid_values))
        invalid_count == FilterCount(self_df.rows, [r \in self_df.rows |-> NotInSet(r)])
        result == QualityCheckResult("valid_values_" \o column, invalid_count = 0,
                                     severity, invalid_count, total_count,
                                     FailedPercentage(invalid_count, total_count))
    IN  /\ Len(results) < MaxResults
        /\ HasColumn(self_df, column)
        /\ results' = Append(results, result)
        /\ returned' = Called("check_values_in_set",
                              <<column, valid_values, severity>>, result)
        /\ UNCHANGED <<localVars, aggVars, now, bronze, silver, silverIn, gold, goldPrev, factRun,
                       factFrame, self_df, jobLog>>

\* check_range; min_value and max_value are Null when not given
check_range(column, min_value, max_value, severity) ==
    LET AtLeastMin(r) ==
            IF IsNull(min_value) THEN Some(TRUE)
            ELSE NAnd(Some(TRUE), NGe(Cell(r, column), min_value))
        InRange(r) ==
            IF IsNull(max_value) THEN AtLeastMin(r)
            ELSE NAnd(AtLeastMin(r), NLe(Cell(r, column), max_value))
        OutOfRange(r) == NNot(InRange(r))
        invalid_count == FilterCount(self_df.rows, [r \in self_df.rows |-> OutOfRange(r)])
        result == QualityCheckResult("range_" \o column, invalid_count = 0,
                                     severity, invalid_count, total_count,
                                     FailedPercentage(invalid_count, total_count))
    IN  /\ Len(results) < MaxResults
        /\ HasColumn(self_df, column)
        /\ results' = Append(results, result)
        /\ returned' = Called("check_range",
                              <<column, min_value, max_value, severity>>, result)
        /\ UNCHANGED <<localVars, aggVars, now, bronze, silver, silverIn, gold, goldPrev, factRun,
                       factFrame, self_df, jobLog>>

\* check_referential_integrity: the distinct foreign keys that no distinct
\* reference key equals (left_anti join on fk = pk)
check_referential_integrity(column, reference_df, reference_column, severity) ==
    LET fk_values == { Cell(r, column) : r \in self_df.rows }
        pk_values == { Cell(r, reference_column) : r \in reference_df.rows }
        orphans == { fk \in fk_values :
                       ~\E pk \in pk_values : NEq(fk, pk) = Some(TRUE) }
        orphan_count == Cardinality(orphans)
        result == QualityCheckResult("ref_integrity_" \o column, orphan_count = 0,
                                     severity, orphan_count, total_count,
                                     FailedPercentage(orphan_count, total_count))
    IN  /\ Len(results) < MaxResults
        /\ HasColumn(self_df, column)
        /\ HasColumn(reference_df, reference_column)
        /\ results' = Append(results, result)
        /\ returned' = Called("check_referential_integrity",
                              <<column, reference_df, reference_column, severity>>,
                              result)
        /\ UNCHANGED <<localVars, aggVars, now, bronze, silver, silverIn, gold, goldPrev, factRun,
                       factFrame, self_df, jobLog>>

\* DataQualityValidator(df, "orders")
InitChecks ==
    /\ now = MaxIngest
    /\ bronze = [t \in Tables |-> {}]
    /\ silver = [t \in Tables |-> {}]
    /\ silverIn = [t \in Tables |-> {}]
    /\ GoldInit
    /\ self_df \in OrderFrames
    /\ results = <<>>
    /\ returned = NoCall
    /\ jobLog = NoJob
    /\ RunnerIdle

NextChecks ==
    \/ \E valid_values \in { {"pending", "shipped"}, {"pending"} },
          severity \in CheckSeverity :
          check_values_in_set("status", valid_values, severity)
    \/ \E min_value \in {Null, Some(0)}, max_value \in {Null, Some(5)},
          severity \in CheckSeverity :
          check_range("total_amount", min_value, max_value, severity)
    \/ \E reference_df \in ReferenceFrames, severity \in CheckSeverity :
          check_referential_integrity("customer_id", reference_df, "customer_id",
                                      severity)

SpecChecks == InitChecks /\ [][NextChecks]_vars

-----------------------------------------------------------------------------
(* The local runners run_local_pipeline.py and run_local.py (SpecLocal).   *)
(* The data directory is modelled by the paths that exist; the rows of     *)
(* the files are left out.                                                 *)

MaxFlags == 3        \* a command line holds at most MaxFlags flags
MaxInvocations == 2  \* the runners are started at most MaxInvocations times

\* the layer functions in the order in which main names them
LocalLayers == <<"bronze", "silver", "gold", "validation">>

\* the command-line flag that asks for layer l
FlagFor(l) == IF l = "validation" THEN "validate" ELSE l

Given(argv, flag) == \E i \in DOMAIN argv : argv[i] = flag

\* command lines of distinct flags, in any order
Argvs(flags, n) ==
    { a \in UNION { [1..k -> flags] : k \in 0..n } :
        \A i, j \in DOMAIN a : i # j => a[i] # a[j] }

\* run_local_pipeline.py: --all --bronze --silver --gold --validate
PipelineArgvs == Argvs({"all", "bronze", "silver", "gold", "validate"}, MaxFlags)

\* run_local.py: --all and --layer bronze|silver|gold (a token that names a
\* layer stands for --layer with that value)
LocalArgvs == Argvs({"all", "bronze", "silver", "gold"}, MaxFlags - 1)

\* a main that calls the layer functions in the order of the command line
PipelineCallsAsGiven(argv) ==
    IF Given(argv, "all") THEN LocalLayers
    ELSE [i \in DOMAIN argv |-> IF argv[i] = "validate" THEN "validation" ELSE argv[i]]

\* run_local_pipeline.main: click turns the flags into booleans; with --all
\* the four functions are called, else each function whose flag is set, in
\* the order of the if statements
PipelineCalls(argv) ==
    IF Given(argv, "all") THEN LocalLayers
    ELSE LET Flagged(l) == Given(argv, FlagFor(l))
         IN  SelectSeq(LocalLayers, Flagged)

\* argparse keeps the value of the last --layer
LastLayer(argv) ==
    LET at == { i \in DOMAIN argv : argv[i] # "all" }
    IN  IF at = {} THEN Null
        ELSE Some(argv[CHOOSE i \in at : \A j \in at : j <= i])

\* run_local.main: the three layers with --all, else the one layer asked for
LocalCalls(argv) ==
    IF Given(argv, "all") THEN <<"bronze", "silver", "gold">>
    ELSE IF IsNull(LastLayer(argv)) THEN <<>>
    ELSE <<Val(LastLayer(argv))>>

dataVars ==
    <<aggVars, returned, now, bronze, silver, silverIn, gold, goldPrev, factRun,
      factFrame, self_df, results, jobLog>>

Idle == invocation.outcome # "running" /\ invocation.count < MaxInvocations

\* main up to its first call; with no call to make it runs to its end
Started(runner, argv, calls, usage) ==
    /\ invocation' = [runner |-> runner, argv |-> argv, calls |-> calls, pc |-> 1,
                      outcome |-> IF usage THEN "usage"
                                  ELSE IF calls = <<>> THEN "completed"
                                  ELSE "running",
                      count |-> invocation.count + 1]
    /\ steps' = <<>>
    /\ UNCHANGED <<paths, dataVars>>

\* run_local_pipeline.main
pipeline_main(argv) ==
    /\ Idle
    /\ Started("run_local_pipeline", argv, PipelineCalls(argv), FALSE)

\* run_local.main: parser.error when neither --layer nor --all is given
local_main(argv) ==
    /\ Idle
    /\ Started("run_local", argv, LocalCalls(argv),
               ~Given(argv, "all") /\ IsNull(LastLayer(argv)))

\* main is at the call of the layer function call
AtCall(call) ==
    /\ invocation.outcome = "running"
    /\ invocation.calls[invocation.pc] = call

\* the layer function has returned or raised: an exception ends main, and
\* so does the return of its last call
Returned(call, missing, wrote, raised) ==
    /\ steps' = Append(steps, [call |-> call, missing |-> missing, wrote |-> wrote])
    /\ paths' = paths \cup wrote
    /\ invocation' =
         [invocation EXCEPT
            !.pc = @ + 1,
            !.outcome = IF raised THEN "raised"
                        ELSE IF invocation.pc = Len(invocation.calls) THEN "completed"
                        ELSE "running"]
    /\ UNCHANGED dataVars

In(layer, names) == { <<layer, n>> : n \in names }

Missing(layer, names) == In(layer, names) \ paths

\* run_bronze (and run_local.run_bronze_layer, the same loop): a table
\* whose csv file is not there is skipped, the others are written
run_bronze ==
    /\ AtCall("bronze")
    /\ Returned("bronze", Missing("raw", Tables),
                In("bronze", { t \in Tables : <<"raw", t>> \in paths }), FALSE)

\* run_silver (and run_local.run_silver_layer, the same loop): a table
\* whose Bronze path is not there is skipped, the others are written
run_silver ==
    /\ AtCall("silver")
    /\ Returned("silver", Missing("bronze", Tables),
                In("silver", { t \in Tables : <<"bronze", t>> \in paths }), FALSE)

\* run_local_pipeline.run_gold: returns before the first build when one of
\* the four Silver tables is not there
run_gold ==
    /\ AtCall("gold")
    /\ invocation.runner = "run_local_pipeline"
    /\ Returned("gold", Missing("silver", Tables),
                IF Missing("silver", Tables) # {} THEN {}
                ELSE In("gold", {"dim_date", "dim_customer", "dim_product", "fact_sales"}),
                FALSE)

\* run_local.run_gold_layer: returns when there is no silver directory;
\* else it reads customers and orders, writes dim_customer, reads products,
\* writes dim_product, reads order_items, writes fact_sales and
\* agg_daily_sales, and the read of a path that is not there raises
run_gold_layer ==
    /\ AtCall("gold")
    /\ invocation.runner = "run_local"
    /\ LET missing == Missing("silver", Tables)
           built == IF missing = In("silver", Tables) THEN {}
                    ELSE IF Missing("silver", {"customers", "orders"}) # {} THEN {}
                    ELSE IF <<"silver", "products">> \in missing THEN {"dim_customer"}
                    ELSE IF <<"silver", "order_items">> \in missing
                    THEN {"dim_customer", "dim_product"}
                    ELSE {"dim_customer", "dim_product", "fact_sales", "agg_daily_sales"}
       IN  Returned("gold", missing, In("gold", built),
                    missing # {} /\ missing # In("silver", Tables))

\* run_validation: reads fact_sales, dim_customer and dim_product, which
\* raises when one is not there; the totals of a fact table without rows
\* are None and formatting them raises
run_validation ==
    /\ AtCall("validation")
    /\ LET missing == Missing("gold", {"fact_sales", "dim_customer", "dim_product"})
       IN  \E raised \in BOOLEAN :
              /\ missing # {} => raised
              /\ Returned("validation", missing, {}, raised)

\* the raw files of the data directory at the start
RawFiles == { In("raw", S) : S \in SUBSET Tables }

InitLocal ==
    /\ now = 0
    /\ bronze = [t \in Tables |-> {}]
    /\ silver = [t \in Tables |-> {}]
    /\ silverIn = [t \in Tables |-> {}]
    /\ GoldInit
    /\ self_df = NoFrame
    /\ results = <<>>
    /\ returned = NoCall
    /\ jobLog = NoJob
    /\ paths \in RawFiles
    /\ invocation = NoInvocation
    /\ steps = <<>>

NextLocal ==
    \/ \E argv \in PipelineArgvs : pipeline_main(argv)
    \/ \E argv \in LocalArgvs : local_main(argv)
    \/ run_bronze
    \/ run_silver
    \/ run_gold
    \/ run_gold_layer
    \/ run_validation

SpecLocal == InitLocal /\ [][NextLocal]_vars

-----------------------------------------------------------------------------
(* Claims about the Silver transformers (SpecSilver) *)

RowsOfKey(df, key, k) == { r \in df : r[key] = k }

MaxIngestedAt(df, key, k) ==
    CHOOSE m \in { r._ingested_at : r \in RowsOfKey(df, key, k) } :
        \A r \in RowsOfKey(df, key, k) : r._ingested_at <= m

\* C1: each transformer's output holds exactly one row for every natural key
\* of the Bronze rows it read, and no other key, and that row carries the
\* largest _ingested_at of the input rows with that key.
C1_OneLatestRowPerKey ==
    \A t \in Tables :
        silver[t] # {} =>
            /\ KeysIn(silver[t], KeyOf(t)) = KeysIn(silverIn[t], KeyOf(t))
            /\ \A k \in KeysIn(silverIn[t], KeyOf(t)) :
                 /\ Cardinality(RowsOfKey(silver[t], KeyOf(t), k)) = 1
                 /\ \A s \in RowsOfKey(silver[t], KeyOf(t), k) :
                      s._ingested_at = MaxIngestedAt(silverIn[t], KeyOf(t), k)

\* a key ingested twice at different times, and a second key, deduplicated
C1_Witness ==
    /\ silver["customers"] # {}
    /\ Cardinality(silver["customers"]) < Cardinality(silverIn["customers"])
    /\ \E a, b \in silverIn["customers"] :
         a.customer_id = b.customer_id /\ a._ingested_at < b._ingested_at

\* the validation flag the transformer of t derives for Bronze row r
FlagOf(t, r) ==
    CASE t = "customers" -> CustomerColumns(r).is_valid_email
      [] t = "orders" -> OrderColumns(r).is_total_valid
      [] t = "order_items" -> ItemColumns(r).is_line_total_valid

FlaggedTables == {"customers", "orders", "order_items"}

\* C2: no transformer drops a business row because of its validation flag:
\* every Bronze row read, whether its flag is true, false or undefined, has
\* its natural key in the output, and the output has no other key.
C2_FlagsDoNotFilter ==
    \A t \in FlaggedTables :
        silver[t] # {} =>
            /\ \A v \in {Some(TRUE), Some(FALSE), Null} :
                 \A r \in silverIn[t] :
                    FlagOf(t, r) = v =>
                        \E s \in silver[t] : s[KeyOf(t)] = r[KeyOf(t)]
            /\ \A s \in silver[t] :
                 \E r \in silverIn[t] : r[KeyOf(t)] = s[KeyOf(t)]

\* an order flagged false and an order with an undefined flag, both kept
C2_Witness ==
    /\ \E s \in silver["orders"] : s.is_total_valid = Some(FALSE)
    /\ \E s \in silver["orders"] : s.is_total_valid = Null

\* the business columns of a Silver table: all but the processing timestamp
Business(rows) ==
    { [c \in (DOMAIN r) \ {"_processed_at"} |-> r[c]] : r \in rows }

\* C9: Silver deduplication is deterministic: a transformer run again over
\* the Bronze rows it read before keeps, for every key, the row it kept before.
C9_SameSurvivor ==
    [][\A t \in Tables :
          (silver[t] # {} /\ silverIn'[t] = silverIn[t]) =>
              Business(silver'[t]) = Business(silver[t])]_vars

-----------------------------------------------------------------------------
(* Claims about the Gold builders (SpecGold, SpecRebuild) *)

\* an order item whose order, that order's customer and whose product are
\* all in the Silver snapshot
Matched(i) ==
    /\ \E o \in silver["orders"] :
          /\ o.order_id = i.order_id
          /\ \E c \in silver["customers"] : c.customer_id = o.customer_id
    /\ \E p \in silver["products"] : p.product_id = i.product_id

\* C3: once build_fact_sales has run on Silver tables unique on their keys,
\* it has written fact_sales without an exception, with exactly one row for
\* every order item whose order, customer and product all match and no row
\* for any other item.
C3_OneFactRowPerMatchedItem ==
    factRun # "none" =>
        /\ factRun = "written"
        /\ gold["fact_sales"].written
        /\ \A i \in silver["order_items"] :
              Cardinality({ f \in gold["fact_sales"].rows :
                              f.order_item_id = i.order_item_id })
                = IF Matched(i) THEN 1 ELSE 0

\* build_fact_sales has run on a snapshot with a matched and an orphan item
C3_Witness ==
    /\ factRun # "none"
    /\ \E i \in silver["order_items"] : Matched(i)
    /\ \E i \in silver["order_items"] : ~Matched(i)

\* C4: with the dimensions and the fact rows built on the same Silver
\* snapshot, every fact row carries the customer_key that dim_customer holds
\* for its customer_id and the product_key that dim_product holds for its
\* product_id, and each of them is found there (no orphan key).
C4_FactKeysAgreeWithDims ==
    (gold["dim_customer"].written /\ gold["dim_product"].written /\ factRun # "none") =>
        \A f \in factFrame :
            /\ \E d \in gold["dim_customer"].rows :
                  d.customer_id = f.customer_id /\ d.customer_key = f.customer_key
            /\ \A d \in gold["dim_customer"].rows :
                  d.customer_key = f.customer_key => d.customer_id = f.customer_id
            /\ \E d \in gold["dim_product"].rows :
                  d.product_id = f.product_id /\ d.product_key = f.product_key
            /\ \A d \in gold["dim_product"].rows :
                  d.product_key = f.product_key => d.product_id = f.product_id

\* both dimensions are built and a fact row carries the second customer key
C4_Witness ==
    /\ gold["dim_customer"].written /\ gold["dim_product"].written
    /\ factRun # "none"
    /\ \E f \in factFrame : f.customer_key = 2
    /\ \E d \in gold["dim_customer"].rows : d.customer_key = 2

\* the keys of rows are exactly 1..N and increase with the natural key
DenseOrderedKeys(rows, key_column, natural_key) ==
    /\ { r[key_column] : r \in rows } = 1..Cardinality(rows)
    /\ \A r, s \in rows : r # s => r[key_column] # s[key_column]
    /\ \A r, s \in rows : r[natural_key] < s[natural_key] => r[key_column] < s[key_column]

\* C10: customer_key, product_key and sale_key are exactly 1..N over the N
\* rows of their table, without duplicate or gap, and increase strictly with
\* customer_id, product_id and order_item_id.
C10_SurrogateKeysDense ==
    /\ gold["dim_customer"].written =>
          DenseOrderedKeys(gold["dim_customer"].rows, "customer_key", "customer_id")
    /\ gold["dim_product"].written =>
          DenseOrderedKeys(gold["dim_product"].rows, "product_key", "product_id")
    /\ factRun # "none" =>
          DenseOrderedKeys(factFrame, "sale_key", "order_item_id")

\* the three tables each hold two keyed rows
C10_Witness ==
    /\ gold["dim_customer"].written /\ Cardinality(gold["dim_customer"].rows) = 2
    /\ gold["dim_product"].written /\ Cardinality(gold["dim_product"].rows) = 2
    /\ factRun # "none" /\ Cardinality(factFrame) = 2

\* the columns a builder takes from the clock
ClockColumns(g) ==
    IF g = "dim_customer"
    THEN {"_created_at", "days_since_last_order", "customer_status"}
    ELSE {"_created_at"}

Without(rows, columns) ==
    { [c \in (DOMAIN r) \ columns |-> r[c]] : r \in rows }

-----------------------------------------------------------------------------
(* Claims about the job runs (SpecJobs) *)

\* C7: a step never removes a row from a Bronze table (ingestion only adds
\* rows, so the rows of every earlier batch stay), and a step that changes a
\* Silver table leaves it equal to the transformer's output for the Bronze
\* rows that run read.
C7_BronzeOnlyGrows ==
    [][ /\ \A t \in Tables : bronze[t] \subseteq bronze'[t]
        /\ \A t \in Tables :
              silver'[t] # silver[t] => silver'[t] \in Transformed(t, silverIn'[t], now)
      ]_vars

\* the Bronze customers table holds the rows of two ingestion batches
C7_Witness == Cardinality(bronze["customers"]) = 2

\* C8: a job run that failed on some table has written either none of the
\* tables of its list or all of them.
C8_NoPartialLayer ==
    jobLog.outcome = "failed" =>
        \/ jobLog.written = {}
        \/ jobLog.written = { jobLog.tables[i] : i \in DOMAIN jobLog.tables }

\* a job run over two tables has failed
C8_Witness == jobLog.outcome = "failed" /\ Len(jobLog.tables) = 2

-----------------------------------------------------------------------------
(* Claims about the validator (SpecValidator) *)

FailedWith(severity) ==
    \E i \in DOMAIN results : ~results[i].passed /\ results[i].severity = severity

\* C5: all_passed(include_warnings) is true exactly when no recorded result
\* failed with severity error and, if include_warnings is set, none failed
\* with severity warning; failed info results do not count, and with no
\* result recorded it is true.
C5_AllPassedIffNoCountedFailure ==
    \A include_warnings \in BOOLEAN :
        all_passed(include_warnings) <=>
            (~FailedWith("error") /\ (include_warnings => ~FailedWith("warning")))

\* a failed warning and a failed info result are recorded, no failed error
C5_Witness ==
    /\ FailedWith("warning") /\ FailedWith("info") /\ ~FailedWith("error")
    /\ all_passed(FALSE) /\ ~all_passed(TRUE)

-----------------------------------------------------------------------------
(* Claims about the amount checks (SpecAmounts) *)

AllPresent(r, columns) == \A c \in columns : ~IsNull(r[c])

\* d is n / 100 rounded half up to a whole number, for n >= 0
IsHalfUpHundredth(d, n) == 200 * d <= 2 * n + 100 /\ 2 * n + 100 < 200 * d + 200

C13_InvariantItemsFlaggedValid ==
    \A s \in silver["order_items"] :
        (/\ AllPresent(s, {"quantity", "unit_price", "discount_percent", "line_total"})
         /\ Val(s.quantity) >= 1 /\ Val(s.unit_price) >= 0
         /\ Val(s.discount_percent) \in 0..100
         /\ Val(s.line_total) \in
               GeneratedLineTotals(Val(s.quantity), Val(s.unit_price),
                                   Val(s.discount_percent)))
            => s.is_line_total_valid = Some(TRUE)

\* an order line that satisfies the invariant went through the transformer
C13_Witness ==
    \E s \in silver["order_items"] :
        /\ AllPresent(s, {"quantity", "unit_price", "discount_percent", "line_total"})
        /\ Val(s.discount_percent) > 0
        /\ Val(s.line_total) \in
              GeneratedLineTotals(Val(s.quantity), Val(s.unit_price),
                                  Val(s.discount_percent))

OrderAmountColumns ==
    {"subtotal", "tax_amount", "shipping_amount", "discount_amount", "total_amount"}

-----------------------------------------------------------------------------
(* Claims about build_dim_customer (SpecCustomers) *)

OrdersOf(c) == { o \in silver["orders"] : o.customer_id = c }

TierOfSpend(cents) ==
    CASE cents >= 100000 -> "platinum"
      [] cents < 100000 /\ cents >= 50000 -> "gold"
      [] cents < 50000 /\ cents >= 10000 -> "silver"
      [] cents < 10000 -> "bronze"

StatusOfAge(days) ==
    CASE days > 365 -> "churned"
      [] days <= 365 /\ days > 90 -> "at_risk"
      [] days <= 90 -> "active"

\* C15: dim_customer holds exactly one row per Silver customer.  A customer
\* without orders has total_orders = 0, total_spend = 0, value_tier bronze
\* and customer_status prospect.  A customer with orders has total_orders
\* equal to its number of orders, a value_tier that follows its total_spend
\* (>= 1000 platinum, >= 500 gold, >= 100 silver, else bronze) and a
\* customer_status that follows the days from its last order to the day of
\* the build (> 365 churned, > 90 at_risk, else active).
C15_DimCustomerSegmented ==
    gold["dim_customer"].written =>
        LET rows == gold["dim_customer"].rows
        IN  /\ { r.customer_id : r \in rows }
                  = { c.customer_id : c \in silver["customers"] }
            /\ Cardinality(rows) = Cardinality(silver["customers"])
            /\ \A r \in rows :
                  IF OrdersOf(r.customer_id) = {}
                  THEN /\ r.total_orders = Some(0)
                       /\ r.total_spend = Some(0)
                       /\ r.value_tier = "bronze"
                       /\ r.customer_status = "prospect"
                  ELSE /\ r.total_orders = Some(Cardinality(OrdersOf(r.customer_id)))
                       /\ r.value_tier = TierOfSpend(Val(r.total_spend))
                       /\ \E last \in OrdersOf(r.customer_id) :
                            /\ \A o \in OrdersOf(r.customer_id) :
                                   o.order_date <= last.order_date
                            /\ r.customer_status =
                                 StatusOfAge(DateOf(r._created_at) - last.order_date)

\* a customer without orders next to a customer whose two orders add up to
\* the platinum threshold and are more than a year old
C15_Witness ==
    /\ gold["dim_customer"].written
    /\ \E r \in gold["dim_customer"].rows :
          r.customer_status = "prospect" /\ r.total_orders = Some(0)
    /\ \E r \in gold["dim_customer"].rows :
          /\ r.total_orders = Some(2) /\ r.total_spend = Some(100000)
          /\ r.value_tier = "platinum" /\ r.customer_status = "churned"

-----------------------------------------------------------------------------
(* Claims about build_dim_date (SpecRebuild) *)

\* the days of the calendar from 1 January start_year to 31 December end_year
CalendarDays(start_year, end_year) ==
    { <<y, m, d>> \in (start_year..end_year) \X (1..12) \X (1..31) :
        /\ m \in {4, 6, 9, 11} => d <= 30
        /\ m = 2 => d <= (IF (y % 4 = 0 /\ y % 100 # 0) \/ y % 400 = 0 THEN 29 ELSE 28) }

\* C16: the table build_dim_date(start_year, end_year) writes has exactly
\* one row for every calendar day from 1 January start_year to 31 December
\* end_year and no other row (365 rows for a common year, 366 for a leap
\* year), each with date_key = year * 10000 + month * 100 + day, and no two
\* rows share a date_key.
C16_DimDateCoversCalendar ==
    gold["dim_date"].written =>
        LET rows == gold["dim_date"].rows
            start_year == gold["dim_date"].args[1]
            end_year == gold["dim_date"].args[2]
        IN  /\ { <<r.year, r.month, r.day_of_month>> : r \in rows }
                  = CalendarDays(start_year, end_year)
            /\ Cardinality(rows) = Cardinality(CalendarDays(start_year, end_year))
            /\ start_year = end_year =>
                  Cardinality(rows) = (IF start_year \in {2020, 2024, 2028} THEN 366 ELSE 365)
            /\ \A r \in rows :
                  r.date_key = r.year * 10000 + r.month * 100 + r.day_of_month
            /\ \A r, q \in rows : r.date_key = q.date_key => r = q

\* the date dimension of the leap year 2024, with its 29 February
C16_Witness ==
    /\ gold["dim_date"].written
    /\ gold["dim_date"].args = <<2024, 2024>>
    /\ Cardinality(gold["dim_date"].rows) = 366
    /\ \E r \in gold["dim_date"].rows : r.date_key = 20240229

-----------------------------------------------------------------------------
(* Claims about the set, range and referential checks (SpecChecks) *)

\* the values of a column of a frame, a null among them if a row has one
ColumnValues(frame, column) == { Cell(r, column) : r \in frame.rows }

\* C19: check_referential_integrity passes exactly when the set of distinct
\* values of the foreign-key column minus the set of values of the reference
\* frame's key column is empty, and its failed_count is the size of that
\* set difference, a null key being a value like any other.
C19_ReferentialSetDifference ==
    returned.method = "check_referential_integrity" =>
        LET absent == ColumnValues(self_df, returned.args[1])
                        \ ColumnValues(returned.args[2], returned.args[3])
        IN  /\ returned.value.passed <=> absent = {}
            /\ returned.value.failed_count = Cardinality(absent)

\* two rows of one unknown customer are counted as one absent value
C19_Witness ==
    /\ returned.method = "check_referential_integrity"
    /\ Cardinality(self_df.rows) = 2
    /\ Cardinality(returned.args[2].rows) = 2
    /\ ~returned.value.passed
    /\ returned.value.failed_count = 1

\* the rows whose value is not one of valid_values
OutsideSet(frame, column, valid_values) ==
    { r \in frame.rows : Cell(r, column) \notin { Some(v) : v \in valid_values } }

\* the rows whose value is not in [min_value, max_value]; a bound that is
\* Null is not given and does not constrain
OutsideRange(frame, column, min_value, max_value) ==
    { r \in frame.rows :
        \/ ~IsNull(min_value) /\
             (IsNull(Cell(r, column)) \/ Val(Cell(r, column)) < Val(min_value))
        \/ ~IsNull(max_value) /\
             (IsNull(Cell(r, column)) \/ Val(Cell(r, column)) > Val(max_value)) }

\* C20: check_values_in_set passes exactly when no row has a value outside
\* the allowed set, and check_range exactly when no row has a value outside
\* [min_value, max_value], both bounds inclusive and an omitted bound
\* unconstrained; failed_count is the number of such rows, a row whose value
\* is null being a row like any other.
C20_SetAndRangeCountRows ==
    /\ returned.method = "check_values_in_set" =>
          LET bad == OutsideSet(self_df, returned.args[1], returned.args[2])
          IN  /\ returned.value.passed <=> bad = {}
              /\ returned.value.failed_count = Cardinality(bad)
    /\ returned.method = "check_range" =>
          LET bad == OutsideRange(self_df, returned.args[1], returned.args[2],
                                  returned.args[3])
          IN  /\ returned.value.passed <=> bad = {}
              /\ returned.value.failed_count = Cardinality(bad)

\* a range check with both bounds found one amount below and one above
\* them, after a set check found two rows with a status outside the set
C20_Witness ==
    /\ returned.method = "check_range"
    /\ ~IsNull(returned.args[2]) /\ ~IsNull(returned.args[3])
    /\ returned.value.failed_count = 2
    /\ \E i \in DOMAIN results :
          results[i].check_name = "valid_values_status" /\ results[i].failed_count = 2

-----------------------------------------------------------------------------
(* Claims about the allocations of build_fact_sales (SpecFact) *)

\* a is n / d rounded half up to a whole number, for n >= 0 and d > 0
IsHalfUpQuotient(a, n, d) == 2 * d * a <= 2 * n + d /\ 2 * n + d < 2 * d * a + 2 * d

AllocationColumns == {"tax_amount", "shipping_amount", "subtotal"}

\* C11: in every fact row built from an order with its amounts and a line
\* with its line_total present, allocated_tax and allocated_shipping are 0
\* when the order's subtotal is 0 (not null, not a fault), and are
\* tax_amount * line_total / subtotal and shipping_amount * line_total /
\* subtotal rounded to the cent when the subtotal is positive.
C11_AllocationsDefined ==
    \A f \in factFrame :
        (AllPresent(f.order, AllocationColumns) /\ ~IsNull(f.item.line_total)) =>
            IF Val(f.order.subtotal) = 0
            THEN f.allocated_tax = Some(0) /\ f.allocated_shipping = Some(0)
            ELSE /\ ~IsNull(f.allocated_tax) /\ ~IsNull(f.allocated_shipping)
                 /\ IsHalfUpQuotient(Val(f.allocated_tax),
                        Val(f.order.tax_amount) * Val(f.item.line_total),
                        Val(f.order.subtotal))
                 /\ IsHalfUpQuotient(Val(f.allocated_shipping),
                        Val(f.order.shipping_amount) * Val(f.item.line_total),
                        Val(f.order.subtotal))

\* the fact frame holds a line of an order without subtotal next to a line
\* that carries a third of its order's subtotal
C11_Witness ==
    /\ \E f \in factFrame :
          f.order.subtotal = Some(0) /\ ~IsNull(f.item.line_total)
    /\ \E f \in factFrame :
          f.order.subtotal = Some(12999) /\ f.item.line_total = Some(4333)

-----------------------------------------------------------------------------
(* Claims about build_daily_sales_summary (SpecAggregates) *)

\* the rows of the stored fact table of one (date_key, shipping_country) pair
DailyGroup(pair) ==
    { r \in gold["fact_sales"].rows :
        r.date_key = pair[1] /\ r.shipping_country = pair[2] }

DailyPairs == { <<r.date_key, r.shipping_country>> : r \in gold["fact_sales"].rows }

-----------------------------------------------------------------------------
(* Claims about revenue_rank_in_category (SpecRanking) *)

InCategory(ranked, category) == { r \in ranked : r.category = category }

\* ranks within each category are 1..n without repetition, and a product
\* with strictly higher total_revenue has a strictly smaller rank
RanksOrdinal(ranked) ==
    \A r \in ranked :
        /\ r.revenue_rank_in_category \in
              1..Cardinality(InCategory(ranked, r.category))
        /\ \A s \in InCategory(ranked, r.category) :
              /\ (s # r) => s.revenue_rank_in_category # r.revenue_rank_in_category
              /\ (/\ ~IsNull(r.total_revenue) /\ ~IsNull(s.total_revenue)
                  /\ Val(r.total_revenue) > Val(s.total_revenue))
                 => r.revenue_rank_in_category < s.revenue_rank_in_category

-----------------------------------------------------------------------------
(* Claims about what the checks return and record (SpecValidator) *)

ColumnNulls(col_name) == { r \in self_df.rows : IsNull(Cell(r, col_name)) }

\* r is a result that failed with the severity given to the call
FailedAsGiven(r, severity) == ~r.passed /\ r.severity = severity

\* the newest timestamp of the frame is older than max_age_hours, or the
\* frame has no timestamp
Stale(timestamp_column, max_age_hours) ==
    \A r \in self_df.rows :
        ~IsNull(Cell(r, timestamp_column)) =>
            (now - Val(Cell(r, timestamp_column))) * HoursPerTick > max_age_hours

ReturnedResults ==
    IF returned.method = "none" \/ returned.raised # "none" THEN {}
    ELSE IF returned.method = "check_not_null"
    THEN { returned.value[i] : i \in DOMAIN returned.value }
    ELSE { returned.value }

\* C27: every result a check method has returned is in the results list, so
\* when a returned result has passed = false and severity error, all_passed()
\* is false and get_summary lists that result; check_not_null on a column
\* the frame does not have is included.
C27_ReturnedResultsRecorded ==
    \A r \in ReturnedResults :
        /\ \E i \in DOMAIN results : results[i] = r
        /\ (~r.passed /\ r.severity = "error") =>
              /\ ~all_passed(FALSE)
              /\ \E i \in DOMAIN get_summary.lines : get_summary.lines[i] = r

\* check_not_null has returned a failed error result for a column the frame
\* does not have
C27_Witness ==
    /\ returned.method = "check_not_null"
    /\ \E i \in DOMAIN returned.args[1] :
          /\ ~HasColumn(self_df, returned.args[1][i])
          /\ ~returned.value[i].passed
          /\ returned.value[i].severity = "error"

\* passed iff nothing failed, no more failures than rows, and the percentage
\* is failed_count / total_count * 100, 0 for no row
ResultConsistent(r) ==
    /\ r.passed <=> r.failed_count = 0
    /\ r.failed_count <= r.total_count
    /\ IF r.total_count = 0 THEN r.failed_percentage[1] = 0
       ELSE r.failed_percentage[1] * r.total_count
              = r.failed_count * 100 * r.failed_percentage[2]

\* C28: every recorded result is consistent: passed exactly when
\* failed_count = 0, failed_count <= total_count, and failed_percentage =
\* failed_count / total_count * 100 (0 when total_count = 0).
C28_ResultsConsistent ==
    \A i \in DOMAIN results : ResultConsistent(results[i])

\* a row-count check and a freshness check have failed and are recorded
C28_Witness ==
    /\ \E i \in DOMAIN results :
          results[i].check_name = "row_count" /\ ~results[i].passed
    /\ \E i \in DOMAIN results :
          results[i].check_name = "freshness__processed_at" /\ ~results[i].passed

IsPrefix(s, t) == Len(s) <= Len(t) /\ \A i \in DOMAIN s : s[i] = t[i]

\* C29: the results list only grows at its end and no recorded result
\* changes; all_passed(w) is true while nothing is recorded; once
\* all_passed(w) is false it stays false after every further check; and
\* all_passed(true) implies all_passed(false).
C29_ResultsOnlyGrow ==
    /\ [](results = <<>> => (all_passed(TRUE) /\ all_passed(FALSE)))
    /\ [](all_passed(TRUE) => all_passed(FALSE))
    /\ [][/\ IsPrefix(results, results')
          /\ \A w \in BOOLEAN : ~all_passed(w) => ~(all_passed(w))']_vars

\* a failed error result was recorded first and two passed results after it
C29_Witness ==
    /\ Len(results) = 3
    /\ ~results[1].passed /\ results[1].severity = "error"
    /\ results[2].passed /\ results[3].passed
    /\ ~all_passed(FALSE)

-----------------------------------------------------------------------------
(* Claims about zero-row inputs and missing schemas (SpecJobs) *)

ProcessingDates == {Null} \cup { Some(d) : d \in DateOf(0)..DateOf(MaxIngest) }

\* C22: a Bronze run started in any reachable state on raw files that all
\* exist, for names that all have a schema, and a Silver run on Bronze paths
\* that all exist, for names whose paths with rows all have a transformer:
\* a table whose input has no row is not written and its target store is
\* left as it was, every table with rows is written, and the run succeeds,
\* so the zero-row table neither raises nor stops the loop.
C22_ZeroRowsSkipped ==
    /\ \A tables \in JobLists, raw \in LandingZones :
          (\A i \in DOMAIN tables : tables[i] \in Tables /\ ~IsNull(raw[tables[i]]))
          => LET run == IngestTables(tables, 1, raw, now, bronze, {})
             IN  /\ run.outcome = "succeeded"
                 /\ \A i \in DOMAIN tables :
                       IF Val(raw[tables[i]]) = {}
                       THEN /\ tables[i] \notin run.written
                            /\ run.bronze[tables[i]] = bronze[tables[i]]
                       ELSE tables[i] \in run.written
    /\ \A tables \in JobLists, pd \in ProcessingDates, emptied \in EmptiedPaths :
          (\A i \in DOMAIN tables :
              /\ ~IsNull(BronzePath(bronze, tables[i], pd, emptied))
              /\ tables[i] \in Tables \/ tables[i] \in emptied)
          => \A run \in ProcessTables(tables, 1, pd, emptied, now, silver, silverIn, {}) :
                /\ run.outcome = "succeeded"
                /\ \A i \in DOMAIN tables :
                      IF Val(BronzePath(bronze, tables[i], pd, emptied)) = {}
                      THEN /\ tables[i] \notin run.written
                           /\ tables[i] \in Tables =>
                                 run.silver[tables[i]] = silver[tables[i]]
                      ELSE tables[i] \in run.written

\* a Silver run over orders and customers has succeeded and has written
\* customers only: the Bronze path of orders held no row
C22_Witness ==
    /\ jobLog.layer = "silver"
    /\ jobLog.tables = <<"orders", "customers">>
    /\ jobLog.outcome = "succeeded"
    /\ jobLog.written = {"customers"}
    /\ bronze["orders"] = {}
    /\ silver["orders"] = {}
    /\ silver["customers"] # {}

\* C23: a Bronze run started in any reachable state with a list that holds
\* a name without schema at position k fails (it is not committed), writes
\* no table but those before position k, and leaves the Bronze store of
\* every other table, the later ones included, as it was; the store never
\* gets a table for that name.
C23_MissingSchemaFatal ==
    \A tables \in JobLists, raw \in LandingZones :
        \A k \in DOMAIN tables :
            tables[k] \notin Tables
            => LET run == IngestTables(tables, 1, raw, now, bronze, {})
               IN  /\ run.outcome = "failed"
                   /\ run.written \subseteq { tables[j] : j \in 1..(k - 1) }
                   /\ DOMAIN run.bronze = Tables
                   /\ \A t \in Tables \ { tables[j] : j \in 1..(k - 1) } :
                         run.bronze[t] = bronze[t]

\* a Bronze run over returns and customers has failed without writing, on
\* a store that already holds customers
C23_Witness ==
    /\ jobLog.layer = "bronze"
    /\ jobLog.tables = <<"returns", "customers">>
    /\ jobLog.outcome = "failed"
    /\ jobLog.written = {}
    /\ bronze["customers"] # {}

-----------------------------------------------------------------------------
(* Claims about the lineage columns (SpecSilver) *)

\* the columns add_bronze_metadata attaches to every Bronze row
LineageColumns == {"_ingested_at", "_source_file", "_ingestion_date"}

\* C24: every row of a transformer's output has the three Bronze lineage
\* columns, with the values of one Bronze row of its key that was read, and
\* has the processing timestamp _processed_at that Silver adds.
C24_LineagePreserved ==
    \A t \in Tables :
        \A s \in silver[t] :
            /\ "_processed_at" \in DOMAIN s
            /\ LineageColumns \subseteq DOMAIN s
            /\ \E r \in silverIn[t] :
                 /\ r[KeyOf(t)] = s[KeyOf(t)]
                 /\ \A c \in LineageColumns : s[c] = r[c]

\* a transformer has written rows that carry _ingested_at and _source_file
\* of a Bronze row of their key and a _processed_at, without _ingestion_date
C24_Witness ==
    \E t \in Tables :
        /\ silver[t] # {}
        /\ \A s \in silver[t] :
             /\ "_processed_at" \in DOMAIN s
             /\ "_ingestion_date" \notin DOMAIN s
             /\ \E r \in silverIn[t] :
                  /\ "_ingestion_date" \in DOMAIN r
                  /\ r[KeyOf(t)] = s[KeyOf(t)]
                  /\ r._ingested_at = s._ingested_at
                  /\ r._source_file = s._source_file

-----------------------------------------------------------------------------
(* Claims about the product margin (SpecSilver) *)

\* m hundredths of a percent is (price - cost) / price * 100 rounded half
\* away from zero to two decimals, for price > 0
IsRoundedMargin(m, price, cost) ==
    IF price >= cost
    THEN IsHalfUpQuotient(m, (price - cost) * 10000, price)
    ELSE IsHalfUpQuotient(-m, (cost - price) * 10000, price)

\* C25: every Silver product with a price above 0 and a cost has
\* margin_percent = (price - cost) / price * 100 rounded to two decimals,
\* every Silver product with a price of 0 or below has margin_percent = 0
\* (a value, not null), and every product read has its row in the output.
C25_MarginGuarded ==
    silver["products"] # {} =>
        /\ \A s \in silver["products"] :
             /\ (~IsNull(s.price) /\ Val(s.price) > 0 /\ ~IsNull(s.cost))
                  => /\ ~IsNull(s.margin_percent)
                     /\ IsRoundedMargin(Val(s.margin_percent), Val(s.price), Val(s.cost))
             /\ (~IsNull(s.price) /\ Val(s.price) <= 0)
                  => s.margin_percent = Some(0)
        /\ \A r \in silverIn["products"] :
             \E s \in silver["products"] :
                /\ s.product_id = r.product_id
                /\ \E q \in silverIn["products"] :
                     /\ q.product_id = s.product_id
                     /\ s.price = q.price /\ s.cost = q.cost

\* two products transformed: one with price 0 and one priced below its cost
C25_Witness ==
    /\ \E s \in silver["products"] : s.price = Some(0) /\ s.margin_percent = Some(0)
    /\ \E s \in silver["products"] :
         s.price = Some(1000) /\ s.margin_percent = Some(-5000)

-----------------------------------------------------------------------------
(* Claims about the order of the layers in the local runners (SpecLocal) *)

\* the place of a layer in the chain bronze, silver, gold, validation
Rank(l) == CHOOSE i \in DOMAIN LocalLayers : LocalLayers[i] = l

\* the command line of the invocation asks for layer l
Requested(l) ==
    IF invocation.runner = "run_local_pipeline"
    THEN Given(invocation.argv, "all") \/ Given(invocation.argv, FlagFor(l))
    ELSE /\ l # "validation"
         /\ Given(invocation.argv, "all") \/ LastLayer(invocation.argv) = Some(l)

\* C26: in every invocation of a local runner, whatever flags it is given
\* and in whatever order, a layer function is called only after every
\* earlier layer of the chain bronze, silver, gold, validation that the
\* command line asks for has been called and has returned, no layer is
\* called twice, an invocation that completes has called every layer asked
\* for, and a run_gold that finds one of the four Silver tables missing
\* writes nothing.
C26_LayersInOrder ==
    /\ \A j \in DOMAIN steps :
          /\ Requested(steps[j].call)
          /\ \A l \in { LocalLayers[i] : i \in DOMAIN LocalLayers } :
                (Requested(l) /\ Rank(l) < Rank(steps[j].call))
                  => \E i \in 1..(j - 1) : steps[i].call = l
          /\ \A i \in 1..(j - 1) : Rank(steps[i].call) < Rank(steps[j].call)
          /\ (/\ invocation.runner = "run_local_pipeline"
              /\ steps[j].call = "gold"
              /\ steps[j].missing # {})
                => steps[j].wrote = {}
    /\ invocation.outcome = "completed" =>
          \A l \in { LocalLayers[i] : i \in DOMAIN LocalLayers } :
              Requested(l) => \E i \in DOMAIN steps : steps[i].call = l

\* run_local_pipeline.py --gold --silver --bronze on a data directory
\* without order_items.csv has called bronze, silver and gold in that
\* order, and run_gold has written nothing
C26_Witness ==
    /\ invocation.runner = "run_local_pipeline"
    /\ invocation.argv = <<"gold", "silver", "bronze">>
    /\ invocation.outcome = "completed"
    /\ Len(steps) = 3
    /\ steps[1].call = "bronze" /\ steps[2].call = "silver" /\ steps[3].call = "gold"
    /\ steps[2].wrote = In("silver", Tables \ {"order_items"})
    /\ steps[3].missing = {<<"silver", "order_items">>}
    /\ steps[3].wrote = {}

-----------------------------------------------------------------------------
(* Claims about the discount of a fact row (SpecGold) *)

\* C30: once build_fact_sales has run on Silver orders and order items that
\* give it a frame with rows, it has completed and written fact_sales, and
\* the fact row of every frame row carries the discount_amount of the order
\* item, not the one of the order.
C30_LineDiscountSelected ==
    (factRun # "none" /\ factFrame # {}) =>
        /\ factRun = "written"
        /\ gold["fact_sales"].written
        /\ \A f \in factFrame :
              \E g \in gold["fact_sales"].rows :
                 /\ g.order_item_id = f.order_item_id
                 /\ g.discount_amount = f.item.discount_amount

\* build_fact_sales has run on a frame in which an item's discount_amount
\* differs from the discount_amount of its order
C30_Witness ==
    /\ factRun # "none"
    /\ \E f \in factFrame :
          /\ ~IsNull(f.item.discount_amount)
          /\ f.item.discount_amount # f.order.discount_amount

=============================================================================
